---- MODULE Spec2Model ----
(***************************************************************************)
(* The transactional core of the payment service: PaymentService           *)
(* (transfer_money, reverse_transaction), AccountService (locked reads,    *)
(* update_balance, audit rows), IdempotencyService (cache + durable        *)
(* record) and the unit of work the endpoints commit or roll back.         *)
(*                                                                         *)
(* Decimal values are integers counting half cents (0.005), so that an     *)
(* amount with three fractional digits can be told from its value stored   *)
(* in a DECIMAL(20, 2) column.  Time passes in ticks.  An expiry time is   *)
(* kept as its distance from the clock, expires_at - utcnow(), which each  *)
(* tick shortens by one: a record or cache entry is live while it is > 0.  *)
(* The concurrent specification lets time pass a whole TTL at a time, the  *)
(* sequential one tick by tick.                                            *)
(***************************************************************************)
EXTENDS Integers, Sequences, FiniteSets, TLC

\* ---------------------------------------------------------------- bounds
\* Number of transaction ids the sequence hands out to concurrent requests.
MaxTxn == 2
\* Number of transaction ids the sequence hands out to sequential requests.
MaxSeqTxn == 3
\* Largest amount a caller asks to move, in half cents.
MaxAmount == 4
\* Number of transaction ids the sequence hands out where one transfer is
\* reversed by concurrent requests.
MaxRevTxn == 3

\* Last reading of the clock where timestamps are compared.
MaxClock == 3

\* Largest coefficient of a decimal a caller passes to Money.
MaxCoef == 20
\* Largest number of fractional digits of such a decimal, and of a quantize.
MaxPlaces == 2

\* ------------------------------------------------------ program constants
\* One cent in model units: the columns keep two fractional digits.
Cent == 2
\* Lifetime of an idempotency record and of its cache entry, in ticks.
IDEMPOTENCY_KEY_TTL_SECONDS == 2
\* getcontext().prec: the significant digits decimal arithmetic keeps.
DecimalPrec == 2

Procs == {1, 2}
AccountIds == {1, 2, 3, 4}
MissingAccountId == 5
Keys == {"k1", "k2", "k3"}

VARIABLES
    accounts,    \* accounts table: account_id -> row (committed)
    txns,        \* transactions table: transaction_id -> row (committed)
    entries,     \* transaction_entries table, in entry_id order (committed)
    audits,      \* audit_logs table, in log_id order (committed)
    idem,        \* idempotency_keys table: key -> row or NoRow (committed)
    cache,       \* cache entries "idempotency:{key}": key -> entry or NoRow
    locks,       \* row lock of each account: holder, or 0
    nextTxnId,   \* the transactions id sequence
    pc,          \* where each request is
    call,        \* the arguments of each request in flight
    sess,        \* each request's session: loaded objects and pending writes
    now,         \* the reading of the clock, datetime.utcnow(); it moves only
                 \* in the specification that compares timestamps
    money,       \* the last operation on Money values: operands and outcome
    history,     \* the last answer of a read endpoint of /transactions
    balcache     \* cache entries "balance:{id}": account_id -> entry or NoRow

vars == <<accounts, txns, entries, audits, idem, cache, locks, nextTxnId,
          pc, call, sess, now, money, history, balcache>>

\* What the payment services keep.
services == <<accounts, txns, entries, audits, idem, cache, locks, nextTxnId,
              pc, call, sess, now>>

durable == <<accounts, txns, entries, audits, idem>>

NoRow == [none |-> TRUE]
NoCall == [kind |-> "none"]
NoMoney == [op |-> "none"]
NoHistory == [asked |-> FALSE]
NoSess == [accts |-> <<>>, txn |-> NoRow, orig |-> NoRow, entries |-> <<>>,
           audits |-> <<>>, idem |-> NoRow, new_from |-> 0, new_to |-> 0,
           err |-> "none", named |-> 0]

\* The value a DECIMAL(20, 2) column keeps of a non-negative decimal:
\* rounded to the cent, ties away from zero.
StoreDecimal(x) == ((x + Cent \div 2) \div Cent) * Cent

\* ------------------------------------------------------------- Money
\* Money.is_zero / Money.is_positive
IsZero(amount) == amount = 0
IsPositive(amount) == amount > 0

\* A debit that is never refused: neither funds check nor Money's own guard.
DebitErrorUnchecked(balance, amount) == "none"

\* Money.__lt__ as the funds check uses it, then Money.__sub__: the error the
\* debit of `amount` from `balance` raises, or "none".
DebitError(balance, amount) ==
    IF balance < amount THEN "InsufficientFunds"
    ELSE IF balance - amount < 0 THEN "ValueError"
    ELSE "none"

\* ------------------------------------------------- decimal arithmetic
\* A decimal.Decimal is a signed coefficient c and an exponent e: c * 10^e.
RECURSIVE Pow10(_)
Pow10(n) == IF n <= 0 THEN 1 ELSE 10 * Pow10(n - 1)

Abs(x) == IF x < 0 THEN -x ELSE x
Sign(x) == IF x < 0 THEN -1 ELSE 1
Min(x, y) == IF x < y THEN x ELSE y

\* len(str(coefficient))
RECURSIVE NumDigits(_)
NumDigits(c) == IF Abs(c) < 10 THEN 1 ELSE 1 + NumDigits(Abs(c) \div 10)

\* A rounding that takes ties to the even neighbour (ROUND_HALF_EVEN).
RoundHalfEven(c, shift) ==
    LET q == Abs(c) \div Pow10(shift)
        r == Abs(c) % Pow10(shift)
    IN Sign(c) * (IF 2 * r > Pow10(shift) \/ (2 * r = Pow10(shift) /\ q % 2 = 1)
                  THEN q + 1 ELSE q)

\* Coefficient c dropped by `shift` digits, ROUND_HALF_UP: to the nearest,
\* ties away from zero.
RoundHalfUp(c, shift) ==
    LET q == Abs(c) \div Pow10(shift)
        r == Abs(c) % Pow10(shift)
    IN Sign(c) * (IF 2 * r >= Pow10(shift) THEN q + 1 ELSE q)

\* Rounding that drops the digits (ROUND_DOWN).
RoundDown(c, shift) == Sign(c) * (Abs(c) \div Pow10(shift))

\* Decimal._fix: a result of more than prec digits is rounded to prec digits
\* with the context's rounding, ROUND_HALF_UP.
Fix(d) ==
    IF NumDigits(d.c) <= DecimalPrec THEN d
    ELSE LET shift == NumDigits(d.c) - DecimalPrec
             c == RoundHalfUp(d.c, shift)
         IN IF Abs(c) = Pow10(DecimalPrec)
            THEN [c |-> c \div 10, e |-> d.e + shift + 1]
            ELSE [c |-> c, e |-> d.e + shift]

\* The coefficient of d written with exponent e <= d.e.
Aligned(d, e) == d.c * Pow10(d.e - e)

\* The exact sum, difference and product of two decimals.
ExactAdd(a, b) ==
    LET e == Min(a.e, b.e) IN [c |-> Aligned(a, e) + Aligned(b, e), e |-> e]
ExactSub(a, b) ==
    LET e == Min(a.e, b.e) IN [c |-> Aligned(a, e) - Aligned(b, e), e |-> e]
ExactMul(a, b) == [c |-> a.c * b.c, e |-> a.e + b.e]

\* An addition that first brings both operands to the coarser exponent.
DecAddCoarse(a, b) ==
    LET e == IF a.e > b.e THEN a.e ELSE b.e
    IN Fix([c |-> RoundDown(a.c, e - a.e) + RoundDown(b.c, e - b.e), e |-> e])

\* Decimal.__add__, __sub__, __mul__ under the context.
DecAdd(a, b) == Fix(ExactAdd(a, b))
DecSub(a, b) == Fix(ExactSub(a, b))
DecMul(a, b) == Fix(ExactMul(a, b))

\* Decimal.__truediv__ for a divisor other than zero: prec + 1 digits of
\* the quotient and a sticky last digit, then _fix.
RECURSIVE StripZeros(_, _)
StripZeros(d, ideal) ==
    IF d.e < ideal /\ d.c # 0 /\ d.c % 10 = 0
    THEN StripZeros([c |-> d.c \div 10, e |-> d.e + 1], ideal) ELSE d

DecDiv(a, b) ==
    IF a.c = 0 THEN [c |-> 0, e |-> a.e - b.e]
    ELSE LET shift == NumDigits(b.c) - NumDigits(a.c) + DecimalPrec + 1
             num == IF shift >= 0 THEN Abs(a.c) * Pow10(shift) ELSE Abs(a.c)
             den == IF shift >= 0 THEN Abs(b.c) ELSE Abs(b.c) * Pow10(-shift)
             coeff == num \div den
             sign == Sign(a.c) * Sign(b.c)
             exp == a.e - b.e - shift
         IN IF num % den # 0
            THEN Fix([c |-> sign * (IF coeff % 5 = 0 THEN coeff + 1 ELSE coeff),
                      e |-> exp])
            ELSE Fix(StripZeros([c |-> sign * coeff, e |-> exp], a.e - b.e))

\* The comparisons of two decimals, by value.
DecLt(a, b) == ExactSub(a, b).c < 0
DecEq(a, b) == ExactSub(a, b).c = 0

\* Decimal._rescale(exp, ROUND_HALF_UP): d written with exponent exp.
Rescale(d, exp) ==
    IF d.e >= exp THEN [c |-> Aligned(d, exp), e |-> exp]
    ELSE [c |-> RoundHalfUp(d.c, exp - d.e), e |-> exp]

\* Decimal.quantize(Decimal('0.1') ** places, rounding=ROUND_HALF_UP) raises
\* InvalidOperation when the result needs more than prec digits ...
QuantizeInvalid(d, places) ==
    /\ d.c # 0
    /\ \/ NumDigits(d.c) + d.e + places > DecimalPrec
       \/ NumDigits(Rescale(d, -places).c) > DecimalPrec

\* ... and otherwise gives the rescaled decimal.
DecQuantize(d, places) ==
    IF d.c = 0 THEN [c |-> 0, e |-> -places] ELSE Rescale(d, -places)

\* ------------------------------------------------------- Money objects
\* str.upper() on the currency tags the callers pass.
Upper(currency) ==
    CASE currency = "usd" -> "USD"
      [] currency = "eur" -> "EUR"
      [] OTHER -> currency

\* What an operation on Money gives: a value, or the exception it raises.
Returns(v) == [err |-> "none", val |-> v]
Raises(e) == [err |-> e, val |-> NoRow]

\* Money.__init__ on a decimal amount.
MoneyInit(amount, currency) ==
    IF amount.c < 0 THEN Raises("ValueError")
    ELSE Returns([amount |-> amount, currency |-> Upper(currency)])

\* A multiplication that keeps the product whatever its sign.
MoneyMulUnchecked(m, k) ==
    Returns([amount |-> DecMul(m.amount, k), currency |-> m.currency])

\* An ordering comparison that ignores the currency tags.
MoneyLtAnyCurrency(a, b) == Returns(DecLt(a.amount, b.amount))

\* Money.__add__, __sub__, __mul__, __truediv__
MoneyAdd(a, b) ==
    IF a.currency # b.currency THEN Raises("ValueError")
    ELSE MoneyInit(DecAdd(a.amount, b.amount), a.currency)

MoneySub(a, b) ==
    IF a.currency # b.currency THEN Raises("ValueError")
    ELSE IF DecSub(a.amount, b.amount).c < 0 THEN Raises("ValueError")
    ELSE MoneyInit(DecSub(a.amount, b.amount), a.currency)

MoneyMul(m, k) == MoneyInit(DecMul(m.amount, k), m.currency)

MoneyTruediv(m, k) ==
    IF k.c = 0
    THEN Raises(IF m.amount.c = 0 THEN "InvalidOperation" ELSE "DivisionByZero")
    ELSE MoneyInit(DecDiv(m.amount, k), m.currency)

\* Money.__eq__, __lt__, __le__, __gt__, __ge__
MoneyEq(a, b) == Returns(DecEq(a.amount, b.amount) /\ a.currency = b.currency)

MoneyLt(a, b) ==
    IF a.currency # b.currency THEN Raises("ValueError")
    ELSE Returns(DecLt(a.amount, b.amount))

MoneyLe(a, b) ==
    IF a.currency # b.currency THEN Raises("ValueError")
    ELSE Returns(~DecLt(b.amount, a.amount))

MoneyGt(a, b) ==
    IF a.currency # b.currency THEN Raises("ValueError")
    ELSE Returns(DecLt(b.amount, a.amount))

MoneyGe(a, b) ==
    IF a.currency # b.currency THEN Raises("ValueError")
    ELSE Returns(~DecLt(a.amount, b.amount))

\* Money.quantize(decimal_places)
MoneyQuantize(m, places) ==
    IF QuantizeInvalid(m.amount, places)
    THEN Raises("InvalidOperation")
    ELSE MoneyInit(DecQuantize(m.amount, places), m.currency)

\* ------------------------------------------------------------- cache
\* What stands for the entry of a key while Redis fails on every operation:
\* get answers None and set answers False (the errors are swallowed).
Unreachable == [unreachable |-> TRUE]

\* An idempotency check that asks the cache only.
CheckIdempotencyCacheOnly(k) ==
    IF cache[k] \notin {NoRow, Unreachable} /\ cache[k].exp > 0
    THEN cache[k].tid ELSE 0

\* CacheService.get_json: the entry, unless absent or past its TTL.
CacheGet(k) ==
    IF cache[k] \notin {NoRow, Unreachable} /\ cache[k].exp > 0
    THEN cache[k] ELSE NoRow

\* CacheService.set_json(key, value, ttl)
CacheSet(c, k, tid, ttl) ==
    IF c[k] = Unreachable THEN c
    ELSE [c EXCEPT ![k] = [tid |-> tid, exp |-> ttl]]

\* ------------------------------------------------------- idempotency
\* The durable record of key k that check_idempotency's query selects:
\* IdempotencyKey.expires_at > utcnow().
DbKey(k) ==
    IF idem[k] # NoRow /\ idem[k].expires_at > 0 THEN idem[k] ELSE NoRow

\* IdempotencyService.check_idempotency: the transaction_id of the response
\* it returns (0: it returns None) ...
CheckIdempotency(k) ==
    IF CacheGet(k) # NoRow THEN CacheGet(k).tid
    ELSE IF DbKey(k) # NoRow THEN DbKey(k).transaction_id
    ELSE 0

\* ... and the cache it leaves: a store hit refreshes the cache entry.
CheckIdempotencyCache(k) ==
    IF CacheGet(k) = NoRow /\ DbKey(k) # NoRow
    THEN CacheSet(cache, k, DbKey(k).transaction_id, IDEMPOTENCY_KEY_TTL_SECONDS)
    ELSE cache

\* IdempotencyService.store_idempotency: the record added to the session.
StoreIdempotency(s, k, tid) ==
    [s EXCEPT !.idem = [idempotency_key |-> k, transaction_id |-> tid,
                        expires_at |-> IDEMPOTENCY_KEY_TTL_SECONDS]]

\* ------------------------------------------------------ account service
\* AccountService._create_audit_log: one audit row added to the session.
CreateAuditLog(s, account_id, action, old_balance, new_balance, tid) ==
    [s EXCEPT !.audits = Append(@, [account_id |-> account_id,
                                    action |-> action,
                                    old_balance |-> old_balance,
                                    new_balance |-> new_balance,
                                    transaction_id |-> tid])]

\* An update_balance that reads the old balance for its audit row after it
\* has assigned the new one.
UpdateBalanceAuditingAfter(s, account_id, new_balance, old_balance) ==
    CreateAuditLog(
        [s EXCEPT !.accts[account_id].balance = new_balance,
                  !.accts[account_id].version = @ + 1],
        account_id, "BALANCE_UPDATED", new_balance, new_balance, 0)

\* An update_balance that leaves the version as it is.
UpdateBalanceKeepingVersion(s, account_id, new_balance, old_balance) ==
    CreateAuditLog(
        [s EXCEPT !.accts[account_id].balance = new_balance],
        account_id, "BALANCE_UPDATED", old_balance, new_balance, 0)

\* AccountService.update_balance on the session's (locked) account object.
UpdateBalance(s, account_id, new_balance, old_balance) ==
    CreateAuditLog(
        [s EXCEPT !.accts[account_id].balance = new_balance,
                  !.accts[account_id].version = @ + 1],
        account_id, "BALANCE_UPDATED", old_balance, new_balance, 0)

\* update_balance, lines 186-188: the cache entries of the accounts `ids`
\* are deleted as soon as the balance is assigned, before any commit.
Invalidate(bc, ids) == [id \in DOMAIN bc |-> IF id \in ids THEN NoRow ELSE bc[id]]

\* A raised exception: the request is left at its error handler.
Raise(p, s, e, n) ==
    /\ pc' = [pc EXCEPT ![p] = "failed"]
    /\ sess' = [sess EXCEPT ![p] = [s EXCEPT !.err = e, !.named = n]]

\* A locked read that does not look at the account's status.
GetAccountForUpdateAnyStatus(p, id, next) ==
    IF id \notin DOMAIN accounts
    THEN /\ Raise(p, sess[p], "InvalidAccount", 0)
         /\ UNCHANGED locks
    ELSE /\ locks[id] \in {0, p}
         /\ locks' = [locks EXCEPT ![id] = p]
         /\ pc' = [pc EXCEPT ![p] = next]
         /\ sess' = [sess EXCEPT ![p] =
                       IF id \in DOMAIN sess[p].accts THEN @
                       ELSE [@ EXCEPT !.accts = (id :> accounts[id]) @@ @]]

\* A read that takes the row without waiting for its holder.
GetAccountForUpdateNoWait(p, id, next) ==
    IF id \notin DOMAIN accounts
    THEN /\ Raise(p, sess[p], "InvalidAccount", 0)
         /\ UNCHANGED locks
    ELSE /\ locks' = [locks EXCEPT ![id] = p]
         /\ LET s == IF id \in DOMAIN sess[p].accts
                     THEN sess[p]
                     ELSE [sess[p] EXCEPT !.accts = (id :> accounts[id]) @@ @]
            IN IF s.accts[id].status # "ACTIVE"
               THEN Raise(p, s, "AccountSuspended", 0)
               ELSE /\ pc' = [pc EXCEPT ![p] = next]
                    /\ sess' = [sess EXCEPT ![p] = s]

\* AccountService.get_account_for_update(id) by request p, continuing at pc
\* next: SELECT ... FOR UPDATE waits for the row lock, which the request
\* then holds until its unit of work ends.  A row already in the session's
\* identity map keeps its object.
GetAccountForUpdate(p, id, next) ==
    IF id \notin DOMAIN accounts
    THEN /\ Raise(p, sess[p], "InvalidAccount", 0)
         /\ UNCHANGED locks
    ELSE /\ locks[id] \in {0, p}
         /\ locks' = [locks EXCEPT ![id] = p]
         /\ LET s == IF id \in DOMAIN sess[p].accts
                     THEN sess[p]
                     ELSE [sess[p] EXCEPT !.accts = (id :> accounts[id]) @@ @]
            IN IF s.accts[id].status # "ACTIVE"
               THEN Raise(p, s, "AccountSuspended", 0)
               ELSE /\ pc' = [pc EXCEPT ![p] = next]
                    /\ sess' = [sess EXCEPT ![p] = s]

\* ------------------------------------------------------ payment service
\* Journal entries that book the credit on the source account as well.
CreateTransferEntriesOneSided(s, tid, from_account_id, to_account_id, amount, currency) ==
    [s EXCEPT !.entries = @ \o
        << [transaction_id |-> tid, account_id |-> from_account_id,
            entry_type |-> "DEBIT", amount |-> amount, currency |-> currency],
           [transaction_id |-> tid, account_id |-> from_account_id,
            entry_type |-> "CREDIT", amount |-> amount, currency |-> currency] >>]

\* PaymentService._create_transfer_entries
CreateTransferEntries(s, tid, from_account_id, to_account_id, amount, currency) ==
    [s EXCEPT !.entries = @ \o
        << [transaction_id |-> tid, account_id |-> from_account_id,
            entry_type |-> "DEBIT", amount |-> amount, currency |-> currency],
           [transaction_id |-> tid, account_id |-> to_account_id,
            entry_type |-> "CREDIT", amount |-> amount, currency |-> currency] >>]

\* transfer_money, lines 128-181, on session s holding the new Transaction:
\* the first `steps` of (update source, update destination, then the rest).
TransferBody(s, c, steps) ==
    LET tid == s.txn.transaction_id
        s1 == UpdateBalance(s, c.from, s.new_from, s.accts[c.from].balance)
        s2 == UpdateBalance(s1, c.to, s.new_to, s1.accts[c.to].balance)
        s3 == CreateTransferEntries(s2, tid, c.from, c.to, c.amount, c.currency)
        s4 == [s3 EXCEPT !.txn.status = "COMPLETED", !.txn.completed_at = now]
        s5 == CreateAuditLog(s4, c.from, "TRANSFER_DEBIT",
                             s4.accts[c.from].balance, s.new_from, tid)
        s6 == CreateAuditLog(s5, c.to, "TRANSFER_CREDIT",
                             s5.accts[c.to].balance, s.new_to, tid)
    IN CASE steps = 0 -> s
         [] steps = 1 -> s1
         [] OTHER -> StoreIdempotency(s6, c.key, tid)

\* A marking that sets REVERSED on the reversal instead of on the original.
MarkReversalOnReversal(s) ==
    [s EXCEPT !.txn.transaction_type = "REVERSAL", !.txn.status = "REVERSED"]

\* reverse_transaction, lines 295-296, after its transfer returned.
MarkReversal(s) ==
    [s EXCEPT !.txn.transaction_type = "REVERSAL", !.orig.status = "REVERSED"]

\* ------------------------------------------------------------ requests
\* What the concurrent requests draw their arguments from: transfers between
\* the two USD accounts and within the first, of half a cent or one cent.
ConcArgs == [pairs |-> {<<1, 1>>, <<1, 2>>, <<2, 1>>},
             amounts |-> {1, Cent},
             currencies |-> {"USD"},
             keys |-> {"k1", "k2"},
             ids |-> MaxTxn]

\* What the sequential requests draw their arguments from: the same
\* transfers, and transfers to and from the EUR account, the suspended
\* account and an unknown account id; zero, half a cent, one cent and the
\* largest amount; both currencies.
SeqArgs == [pairs |-> {<<1, 1>>, <<1, 2>>, <<2, 1>>} \cup
                      {<<1, x>> : x \in {3, 4, MissingAccountId}} \cup
                      {<<x, 1>> : x \in {3, 4, MissingAccountId}},
            amounts |-> {0, 1, Cent, MaxAmount},
            currencies |-> {"USD", "EUR"},
            keys |-> {"k1", "k2"},
            ids |-> MaxSeqTxn]

\* What the requests draw their arguments from where reversals race: one
\* cent from account 1 to account 2, and a key for each of three requests.
RevArgs == [pairs |-> {<<1, 2>>},
            amounts |-> {Cent},
            currencies |-> {"USD"},
            keys |-> Keys,
            ids |-> MaxRevTxn]

\* Requests other than p that have yet to draw their transaction id.
BeforeInsert(p) ==
    {q \in Procs \ {p} : pc[q] \in {"check", "lock_from", "lock_to", "validate"}}

\* The model lets a request go on to its insert only while the id sequence
\* can still serve it.
HasId(p, D) == nextTxnId + Cardinality(BeforeInsert(p)) <= D.ids

\* A transfer_money whose entry has the idempotency check only.
TransferEntryAnyAmount(p, c, D) ==
    LET tid == CheckIdempotency(c.key) IN
    /\ cache' = CheckIdempotencyCache(c.key)
    /\ IF tid # 0 /\ tid \in DOMAIN txns
       THEN Raise(p, sess[p], "DuplicateTransaction", tid)
       ELSE /\ HasId(p, D)
            /\ pc' = [pc EXCEPT ![p] = "lock_from"]
            /\ UNCHANGED sess

\* A transfer_money that rejects every key with a cached or stored response,
\* without looking the Transaction row up.
TransferEntryTrustingResponse(p, c, D) ==
    LET tid == CheckIdempotency(c.key) IN
    /\ cache' = CheckIdempotencyCache(c.key)
    /\ IF tid # 0
       THEN Raise(p, sess[p], "DuplicateTransaction", tid)
       ELSE IF IsZero(c.amount) \/ ~IsPositive(c.amount)
       THEN Raise(p, sess[p], "InvalidAmount", 0)
       ELSE /\ HasId(p, D)
            /\ pc' = [pc EXCEPT ![p] = "lock_from"]
            /\ UNCHANGED sess

\* transfer_money, lines 71-85: the idempotency check and the amount check.
TransferEntry(p, c, D) ==
    LET tid == CheckIdempotency(c.key) IN
    /\ cache' = CheckIdempotencyCache(c.key)
    /\ IF tid # 0 /\ tid \in DOMAIN txns
       THEN Raise(p, sess[p], "DuplicateTransaction", tid)
       ELSE IF IsZero(c.amount) \/ ~IsPositive(c.amount)
       THEN Raise(p, sess[p], "InvalidAmount", 0)
       ELSE /\ HasId(p, D)
            /\ pc' = [pc EXCEPT ![p] = "lock_from"]
            /\ UNCHANGED sess

\* A call of transfer_money arrives and runs up to its first lock request.
BeginTransfer(p, D) ==
    /\ pc[p] = "idle"
    /\ \E ft \in D.pairs, a \in D.amounts, cur \in D.currencies, k \in D.keys :
         LET c == [kind |-> "transfer", from |-> ft[1], to |-> ft[2],
                   amount |-> a, currency |-> cur, key |-> k, orig |-> 0]
         IN /\ call' = [call EXCEPT ![p] = c]
            /\ TransferEntry(p, c, D)
    /\ UNCHANGED <<durable, locks, nextTxnId, now, money, history, balcache>>

\* A reverse_transaction that marks the original REVERSED before its transfer.
BeginReverseMarkingFirst(p, D) ==
    /\ pc[p] = "idle"
    /\ \E id \in DOMAIN txns \cup {nextTxnId}, k \in D.keys :
         IF id \notin DOMAIN txns
         THEN /\ call' = [call EXCEPT ![p] =
                    [kind |-> "reverse", from |-> 0, to |-> 0, amount |-> 0,
                     currency |-> "", key |-> k, orig |-> id]]
              /\ Raise(p, sess[p], "InvalidAccount", 0)
         ELSE /\ call' = [call EXCEPT ![p] =
                    [kind |-> "reverse", from |-> txns[id].to_account_id,
                     to |-> txns[id].from_account_id,
                     amount |-> txns[id].amount,
                     currency |-> txns[id].currency, key |-> k, orig |-> id]]
              /\ IF txns[id].status # "COMPLETED"
                 THEN Raise(p, sess[p], "InvalidAmount", 0)
                 ELSE /\ HasId(p, D)
                      /\ pc' = [pc EXCEPT ![p] = "check"]
                      /\ sess' = [sess EXCEPT ![p].orig =
                                    [transaction_id |-> id, status |-> "REVERSED"]]
    /\ UNCHANGED <<durable, cache, locks, nextTxnId, now, money, history, balcache>>

\* A reverse_transaction that reads the original but skips its status check.
BeginReverseUnchecked(p, D) ==
    /\ pc[p] = "idle"
    /\ \E id \in DOMAIN txns \cup {nextTxnId}, k \in D.keys :
         IF id \notin DOMAIN txns
         THEN /\ call' = [call EXCEPT ![p] =
                    [kind |-> "reverse", from |-> 0, to |-> 0, amount |-> 0,
                     currency |-> "", key |-> k, orig |-> id]]
              /\ Raise(p, sess[p], "InvalidAccount", 0)
         ELSE /\ call' = [call EXCEPT ![p] =
                    [kind |-> "reverse", from |-> txns[id].to_account_id,
                     to |-> txns[id].from_account_id,
                     amount |-> txns[id].amount,
                     currency |-> txns[id].currency, key |-> k, orig |-> id]]
              /\ HasId(p, D)
              /\ pc' = [pc EXCEPT ![p] = "check"]
              /\ sess' = [sess EXCEPT ![p].orig =
                            [transaction_id |-> id, status |-> txns[id].status]]
    /\ UNCHANGED <<durable, cache, locks, nextTxnId, now, money, history, balcache>>

\* A call of reverse_transaction arrives: lines 277-282, the unlocked read of
\* the original and the status check.
BeginReverse(p, D) ==
    /\ pc[p] = "idle"
    /\ \E id \in DOMAIN txns \cup {nextTxnId}, k \in D.keys :
         IF id \notin DOMAIN txns
         THEN /\ call' = [call EXCEPT ![p] =
                    [kind |-> "reverse", from |-> 0, to |-> 0, amount |-> 0,
                     currency |-> "", key |-> k, orig |-> id]]
              /\ Raise(p, sess[p], "InvalidAccount", 0)
         ELSE /\ call' = [call EXCEPT ![p] =
                    [kind |-> "reverse", from |-> txns[id].to_account_id,
                     to |-> txns[id].from_account_id,
                     amount |-> txns[id].amount,
                     currency |-> txns[id].currency, key |-> k, orig |-> id]]
              /\ IF txns[id].status # "COMPLETED"
                 THEN Raise(p, sess[p], "InvalidAmount", 0)
                 ELSE /\ HasId(p, D)
                      /\ pc' = [pc EXCEPT ![p] = "check"]
                      /\ sess' = [sess EXCEPT ![p].orig =
                                    [transaction_id |-> id,
                                     status |-> txns[id].status]]
    /\ UNCHANGED <<durable, cache, locks, nextTxnId, now, money, history, balcache>>

\* reverse_transaction line 285: its transfer_money call starts.
ReverseTransfer(p, D) ==
    /\ pc[p] = "check"
    /\ TransferEntry(p, call[p], D)
    /\ UNCHANGED <<durable, locks, nextTxnId, call, now, money, history, balcache>>

\* transfer_money line 88
LockFrom(p) ==
    /\ pc[p] = "lock_from"
    /\ GetAccountForUpdate(p, call[p].from, "lock_to")
    /\ UNCHANGED <<durable, cache, nextTxnId, call, now, money, history, balcache>>

\* transfer_money line 89
LockTo(p) ==
    /\ pc[p] = "lock_to"
    /\ GetAccountForUpdate(p, call[p].to, "validate")
    /\ UNCHANGED <<durable, cache, nextTxnId, call, now, money, history, balcache>>

\* The request that holds the lock p is waiting for, or 0.
WaitsFor(p) ==
    LET id == IF pc[p] = "lock_from" THEN call[p].from
              ELSE IF pc[p] = "lock_to" THEN call[p].to ELSE 0
    IN IF id \in DOMAIN accounts /\ locks[id] \notin {0, p} THEN locks[id] ELSE 0

RECURSIVE WaitChain(_, _)
\* The request reached from p by following n waits, or 0.
WaitChain(p, n) ==
    IF p = 0 \/ n = 0 THEN p ELSE WaitChain(WaitsFor(p), n - 1)

Deadlocked(p) == \E n \in 1..Cardinality(Procs) : WaitChain(p, n) = p

\* The store detects a cycle of lock waits and fails one request of it.
DeadlockVictim(p) ==
    /\ Deadlocked(p)
    /\ Raise(p, sess[p], "DeadlockDetected", 0)
    /\ UNCHANGED <<durable, cache, locks, nextTxnId, call, now, money, history, balcache>>

\* Another request's uncommitted Transaction row carries key k.
KeyInFlight(p, k) ==
    \E q \in Procs \ {p} : sess[q].txn # NoRow /\ sess[q].txn.idempotency_key = k

\* A committed Transaction row carries key k.
KeyCommitted(k) == \E id \in DOMAIN txns : txns[id].idempotency_key = k

\* A currency check that looks at the source account only.
CurrencyMismatchFromOnly(from_account, to_account, currency) ==
    from_account.currency # currency

\* transfer_money, lines 91-99: the two currency checks.
CurrencyMismatch(from_account, to_account, currency) ==
    from_account.currency # currency \/ to_account.currency # currency

\* transfer_money, lines 91-126: the currency checks, the funds check, the new
\* balances, and the insert of the Transaction row (flush).  The insert waits
\* while another unit of work holds the same key uncommitted, and fails on the
\* unique index when the key is committed.
ValidateAndInsert(p) ==
    LET c == call[p]
        from_account == sess[p].accts[c.from]
        to_account == sess[p].accts[c.to]
    IN
    /\ pc[p] = "validate"
    /\ IF CurrencyMismatch(from_account, to_account, c.currency)
       THEN /\ Raise(p, sess[p], "CurrencyMismatch", 0)
            /\ UNCHANGED nextTxnId
       ELSE IF DebitError(from_account.balance, c.amount) # "none"
       THEN /\ Raise(p, sess[p], DebitError(from_account.balance, c.amount), 0)
            /\ UNCHANGED nextTxnId
       ELSE /\ ~KeyInFlight(p, c.key)
            /\ nextTxnId' = nextTxnId + 1
            /\ IF KeyCommitted(c.key)
               THEN Raise(p, sess[p], "IntegrityError", 0)
               ELSE /\ pc' = [pc EXCEPT ![p] = "mutate"]
                    /\ sess' = [sess EXCEPT ![p] =
                         [@ EXCEPT !.new_from = from_account.balance - c.amount,
                                   !.new_to = to_account.balance + c.amount,
                                   !.txn = [transaction_id |-> nextTxnId,
                                            from_account_id |-> c.from,
                                            to_account_id |-> c.to,
                                            amount |-> c.amount,
                                            currency |-> c.currency,
                                            transaction_type |-> "TRANSFER",
                                            status |-> "PENDING",
                                            created_at |-> now,
                                            completed_at |-> 0,
                                            idempotency_key |-> c.key,
                                            reference_id |-> c.orig]]]
    /\ UNCHANGED <<durable, cache, locks, call, now, money, history, balcache>>

\* transfer_money, lines 128-181: balances, journal, status, audit rows,
\* idempotency record.  At "returned" only the closing log call and the
\* return are left.
Mutate(p) ==
    LET s == TransferBody(sess[p], call[p], 2) IN
    /\ pc[p] = "mutate"
    /\ pc' = [pc EXCEPT ![p] = "returned"]
    /\ sess' = [sess EXCEPT ![p] = s]
    /\ cache' = CacheSet(cache, call[p].key, s.txn.transaction_id,
                         IDEMPOTENCY_KEY_TTL_SECONDS)
    /\ balcache' = Invalidate(balcache, {call[p].from, call[p].to})
    /\ UNCHANGED <<durable, locks, nextTxnId, call, now, money, history>>

\* transfer_money, lines 128-139 and 193-201: a locked read inside
\* update_balance raises (the store fails); the handler marks the in-memory
\* Transaction FAILED and re-raises.
MutateFail(p) ==
    /\ pc[p] = "mutate"
    /\ \E steps \in {0, 1} :
         /\ Raise(p, [TransferBody(sess[p], call[p], steps) EXCEPT !.txn.status = "FAILED"],
                  "OperationalError", 0)
         /\ balcache' = IF steps = 1 THEN Invalidate(balcache, {call[p].from})
                         ELSE balcache
    /\ UNCHANGED <<durable, cache, locks, nextTxnId, call, now, money, history>>

\* An error handler that marks the Transaction FAILED and does not re-raise:
\* the call returns the transaction and the endpoint commits.
FailAfterCompletedSwallowed(p) ==
    /\ pc[p] = "returned"
    /\ sess[p].txn.status # "FAILED"
    /\ sess' = [sess EXCEPT ![p].txn.status = "FAILED"]
    /\ UNCHANGED <<durable, cache, locks, nextTxnId, pc, call, now, money,
                   history, balcache>>

\* transfer_money, lines 183-189 and 193-201: a call made in the try block
\* after the status was set raises (the closing log call); the handler marks
\* the in-memory Transaction FAILED and re-raises.
FailAfterCompleted(p) ==
    /\ pc[p] = "returned"
    /\ Raise(p, [sess[p] EXCEPT !.txn.status = "FAILED"], "Exception", 0)
    /\ UNCHANGED <<durable, cache, locks, nextTxnId, call, now, money, history, balcache>>

\* The rows a unit of work writes, as the columns keep them.
StoredTxn(t) == [t EXCEPT !.amount = StoreDecimal(@)]
StoredEntry(e) == [e EXCEPT !.amount = StoreDecimal(@)]
StoredAudit(a) == [a EXCEPT !.old_balance = StoreDecimal(@),
                            !.new_balance = StoreDecimal(@)]
StoredAccount(a) == [a EXCEPT !.balance = StoreDecimal(@)]

Release(p) == [id \in DOMAIN locks |-> IF locks[id] = p THEN 0 ELSE locks[id]]

\* The call returns (reverse_transaction then marks both transactions, lines
\* 295-296) and the endpoint runs db.commit(): the session's pending writes
\* become durable together and the row locks are released.
Commit(p) ==
    LET s == IF call[p].kind = "reverse" THEN MarkReversal(sess[p]) ELSE sess[p] IN
    /\ pc[p] = "returned"
    /\ accounts' = [id \in DOMAIN accounts |->
                      IF id \in DOMAIN s.accts THEN StoredAccount(s.accts[id])
                      ELSE accounts[id]]
    /\ txns' = (s.txn.transaction_id :> StoredTxn(s.txn)) @@
               [id \in DOMAIN txns |->
                  IF s.orig # NoRow /\ s.orig.transaction_id = id
                  THEN [txns[id] EXCEPT !.status = s.orig.status]
                  ELSE txns[id]]
    /\ entries' = entries \o [i \in 1..Len(s.entries) |-> StoredEntry(s.entries[i])]
    /\ audits' = audits \o [i \in 1..Len(s.audits) |-> StoredAudit(s.audits[i])]
    /\ idem' = [idem EXCEPT ![s.idem.idempotency_key] = s.idem]
    /\ locks' = Release(p)
    /\ pc' = [pc EXCEPT ![p] = "idle"]
    /\ sess' = [sess EXCEPT ![p] = NoSess]
    /\ call' = [call EXCEPT ![p] = NoCall]
    /\ UNCHANGED <<cache, nextTxnId, now, money, history, balcache>>

\* An error handler that commits the Transaction row it marked FAILED.
RollbackKeepingFailed(p) ==
    /\ pc[p] \in {"failed", "returned"}
    /\ txns' = IF sess[p].txn # NoRow /\ sess[p].txn.status = "FAILED"
               THEN (sess[p].txn.transaction_id :> StoredTxn(sess[p].txn)) @@ txns
               ELSE txns
    /\ locks' = Release(p)
    /\ pc' = [pc EXCEPT ![p] = "idle"]
    /\ sess' = [sess EXCEPT ![p] = NoSess]
    /\ call' = [call EXCEPT ![p] = NoCall]
    /\ UNCHANGED <<accounts, entries, audits, idem, cache, nextTxnId, now, money, history, balcache>>

\* The transport status POST /transfers answers with when the engine raised
\* err: the endpoint's own except clauses, tried in order; every error they do
\* not name falls to the last one.
TransferStatus(err) ==
    IF err = "DuplicateTransaction" THEN 409
    ELSE IF err = "InsufficientFunds" THEN 400
    ELSE IF err \in {"InvalidAccount", "InvalidAmount", "CurrencyMismatch"} THEN 400
    ELSE 500

\* The endpoint's db.rollback() after an error, or a unit of work abandoned
\* after the call returned: nothing of the session becomes durable.
Rollback(p) ==
    /\ pc[p] \in {"failed", "returned"}
    /\ locks' = Release(p)
    /\ pc' = [pc EXCEPT ![p] = "idle"]
    /\ sess' = [sess EXCEPT ![p] = NoSess]
    /\ call' = [call EXCEPT ![p] = NoCall]
    /\ UNCHANGED <<durable, cache, nextTxnId, now, money, history, balcache>>

\* A cache entry n ticks later: the cache drops it when its TTL has run out.
OlderEntry(e, n) ==
    IF e = Unreachable THEN e
    ELSE IF e = NoRow \/ e.exp <= n THEN NoRow ELSE [e EXCEPT !.exp = @ - n]

\* An idempotency record n ticks later: an expired row stays in its table.
OlderRecord(r, n) ==
    IF r = NoRow THEN r
    ELSE [r EXCEPT !.expires_at = IF @ <= n THEN 0 ELSE @ - n]

\* n ticks pass: every expiry time still ahead comes n ticks nearer.
Tick(n) ==
    /\ cache' = [k \in Keys |-> OlderEntry(cache[k], n)]
    /\ idem' = [k \in Keys |-> OlderRecord(idem[k], n)]
    /\ sess' = [p \in Procs |-> [sess[p] EXCEPT !.idem = OlderRecord(@, n)]]
    /\ <<cache', idem', sess'>> # <<cache, idem, sess>>
    /\ UNCHANGED <<accounts, txns, entries, audits, locks, nextTxnId, pc, call, now, money, history, balcache>>

\* One tick passes where the clock is read: datetime.utcnow() answers one
\* more, every expiry time still ahead comes one tick nearer.
ClockTick ==
    /\ now < MaxClock
    /\ now' = now + 1
    /\ cache' = [k \in Keys |-> OlderEntry(cache[k], 1)]
    /\ idem' = [k \in Keys |-> OlderRecord(idem[k], 1)]
    /\ sess' = [p \in Procs |-> [sess[p] EXCEPT !.idem = OlderRecord(@, 1)]]
    /\ UNCHANGED <<accounts, txns, entries, audits, locks, nextTxnId, pc, call,
                   money, history, balcache>>

\* CacheService.get / set swallow every Redis error, and Redis may drop an
\* entry: the entry of key k is not there for the next reader.
CacheLost(k) ==
    /\ cache[k] \notin {NoRow, Unreachable}
    /\ cache' = [cache EXCEPT ![k] = NoRow]
    /\ UNCHANGED <<durable, locks, nextTxnId, pc, call, sess, now, money, history, balcache>>

\* --------------------------------------------------- Money operations
\* The decimals and currency tags the callers pass, and the Money objects
\* the constructor makes of them.
Decimals == [c : -MaxCoef..MaxCoef, e : -MaxPlaces..0]
CurrencyTags == {"USD", "EUR", "usd"}
MoneyValues ==
    {[amount |-> d, currency |-> Upper(t)] :
        d \in {x \in Decimals : x.c >= 0}, t \in CurrencyTags}
Places == -1..(MaxPlaces + 1)

\* One call of an operation of Money, on operands of the caller's choice.
DoInit ==
    /\ money = NoMoney
    /\ \E d \in Decimals, t \in CurrencyTags :
          money' = [op |-> "init", a |-> d, b |-> t, out |-> MoneyInit(d, t)]
    /\ UNCHANGED <<services, history, balcache>>

DoAdd ==
    /\ money = NoMoney
    /\ \E a, b \in MoneyValues :
          money' = [op |-> "add", a |-> a, b |-> b, out |-> MoneyAdd(a, b)]
    /\ UNCHANGED <<services, history, balcache>>

DoSub ==
    /\ money = NoMoney
    /\ \E a, b \in MoneyValues :
          money' = [op |-> "sub", a |-> a, b |-> b, out |-> MoneySub(a, b)]
    /\ UNCHANGED <<services, history, balcache>>

DoMul ==
    /\ money = NoMoney
    /\ \E m \in MoneyValues, k \in Decimals :
          money' = [op |-> "mul", a |-> m, b |-> k, out |-> MoneyMul(m, k)]
    /\ UNCHANGED <<services, history, balcache>>

DoTruediv ==
    /\ money = NoMoney
    /\ \E m \in MoneyValues, k \in Decimals :
          money' = [op |-> "div", a |-> m, b |-> k, out |-> MoneyTruediv(m, k)]
    /\ UNCHANGED <<services, history, balcache>>

DoEq ==
    /\ money = NoMoney
    /\ \E a, b \in MoneyValues :
          money' = [op |-> "eq", a |-> a, b |-> b, out |-> MoneyEq(a, b)]
    /\ UNCHANGED <<services, history, balcache>>

DoLt ==
    /\ money = NoMoney
    /\ \E a, b \in MoneyValues :
          money' = [op |-> "lt", a |-> a, b |-> b, out |-> MoneyLt(a, b)]
    /\ UNCHANGED <<services, history, balcache>>

DoLe ==
    /\ money = NoMoney
    /\ \E a, b \in MoneyValues :
          money' = [op |-> "le", a |-> a, b |-> b, out |-> MoneyLe(a, b)]
    /\ UNCHANGED <<services, history, balcache>>

DoGt ==
    /\ money = NoMoney
    /\ \E a, b \in MoneyValues :
          money' = [op |-> "gt", a |-> a, b |-> b, out |-> MoneyGt(a, b)]
    /\ UNCHANGED <<services, history, balcache>>

DoGe ==
    /\ money = NoMoney
    /\ \E a, b \in MoneyValues :
          money' = [op |-> "ge", a |-> a, b |-> b, out |-> MoneyGe(a, b)]
    /\ UNCHANGED <<services, history, balcache>>

DoQuantize ==
    /\ money = NoMoney
    /\ \E m \in MoneyValues, n \in Places :
          money' = [op |-> "quantize", a |-> m, b |-> n,
                    out |-> MoneyQuantize(m, n)]
    /\ UNCHANGED <<services, history, balcache>>

\* ------------------------------------------------------------ behaviours
\* Accounts 1 and 2 hold USD, account 3 holds EUR, account 4 is suspended;
\* user 1 owns accounts 1 and 3, user 2 owns accounts 2 and 4.
InitAccount(user_id, balance, currency, status) ==
    [user_id |-> user_id, balance |-> balance, version |-> 0,
     currency |-> currency, status |-> status]

InitialAccounts ==
    (1 :> InitAccount(1, 2 * Cent, "USD", "ACTIVE")) @@
    (2 :> InitAccount(2, Cent, "USD", "ACTIVE")) @@
    (3 :> InitAccount(1, 2 * Cent, "EUR", "ACTIVE")) @@
    (4 :> InitAccount(2, 2 * Cent, "USD", "SUSPENDED"))

Init ==
    /\ accounts = InitialAccounts
    /\ txns = <<>>
    /\ entries = <<>>
    /\ audits = <<>>
    /\ idem = [k \in Keys |-> NoRow]
    /\ cache = [k \in Keys |-> NoRow]
    /\ locks = [id \in AccountIds |-> 0]
    /\ nextTxnId = 1
    /\ pc = [p \in Procs |-> "idle"]
    /\ call = [p \in Procs |-> NoCall]
    /\ sess = [p \in Procs |-> NoSess]
    /\ now = 1
    /\ money = NoMoney
    /\ history = NoHistory
    /\ balcache = [id \in DOMAIN InitialAccounts |-> NoRow]

Next ==
    \/ \E p \in Procs : BeginTransfer(p, ConcArgs)
    \/ \E p \in Procs : BeginReverse(p, ConcArgs)
    \/ \E p \in Procs : ReverseTransfer(p, ConcArgs)
    \/ \E p \in Procs : LockFrom(p)
    \/ \E p \in Procs : LockTo(p)
    \/ \E p \in Procs : DeadlockVictim(p)
    \/ \E p \in Procs : ValidateAndInsert(p)
    \/ \E p \in Procs : Mutate(p)
    \/ \E p \in Procs : MutateFail(p)
    \/ \E p \in Procs : FailAfterCompleted(p)
    \/ \E p \in Procs : Commit(p)
    \/ \E p \in Procs : Rollback(p)
    \/ Tick(IDEMPOTENCY_KEY_TTL_SECONDS)

Spec == Init /\ [][Next]_vars

\* One request at a time, with the wide arguments.
SeqProc == 1

NextSeq ==
    \/ BeginTransfer(SeqProc, SeqArgs)
    \/ BeginReverse(SeqProc, SeqArgs)
    \/ ReverseTransfer(SeqProc, SeqArgs)
    \/ LockFrom(SeqProc)
    \/ LockTo(SeqProc)
    \/ ValidateAndInsert(SeqProc)
    \/ Mutate(SeqProc)
    \/ MutateFail(SeqProc)
    \/ FailAfterCompleted(SeqProc)
    \/ Commit(SeqProc)
    \/ Rollback(SeqProc)
    \/ Tick(1)

SpecSeq == Init /\ [][NextSeq]_vars

\* One request at a time over one pair of accounts, with a cache that can
\* lose entries.
IdemArgs == [pairs |-> {<<1, 2>>, <<2, 1>>}, amounts |-> {Cent},
             currencies |-> {"USD"}, keys |-> {"k1", "k2"}, ids |-> MaxTxn]

NextIdem ==
    \/ BeginTransfer(SeqProc, IdemArgs)
    \/ BeginReverse(SeqProc, IdemArgs)
    \/ ReverseTransfer(SeqProc, IdemArgs)
    \/ LockFrom(SeqProc)
    \/ LockTo(SeqProc)
    \/ ValidateAndInsert(SeqProc)
    \/ Mutate(SeqProc)
    \/ MutateFail(SeqProc)
    \/ FailAfterCompleted(SeqProc)
    \/ Commit(SeqProc)
    \/ Rollback(SeqProc)
    \/ Tick(1)
    \/ \E k \in Keys : CacheLost(k)

SpecIdem == Init /\ [][NextIdem]_vars

\* One request at a time while Redis fails on every operation.
InitCacheDown ==
    /\ accounts = InitialAccounts
    /\ txns = <<>>
    /\ entries = <<>>
    /\ audits = <<>>
    /\ idem = [k \in Keys |-> NoRow]
    /\ cache = [k \in Keys |-> Unreachable]
    /\ locks = [id \in AccountIds |-> 0]
    /\ nextTxnId = 1
    /\ pc = [p \in Procs |-> "idle"]
    /\ call = [p \in Procs |-> NoCall]
    /\ sess = [p \in Procs |-> NoSess]
    /\ now = 1
    /\ money = NoMoney
    /\ history = NoHistory
    /\ balcache = [id \in DOMAIN InitialAccounts |-> NoRow]

NextCacheDown ==
    \/ BeginTransfer(SeqProc, IdemArgs)
    \/ BeginReverse(SeqProc, IdemArgs)
    \/ ReverseTransfer(SeqProc, IdemArgs)
    \/ LockFrom(SeqProc)
    \/ LockTo(SeqProc)
    \/ ValidateAndInsert(SeqProc)
    \/ Mutate(SeqProc)
    \/ MutateFail(SeqProc)
    \/ FailAfterCompleted(SeqProc)
    \/ Commit(SeqProc)
    \/ Rollback(SeqProc)
    \/ Tick(1)

SpecCacheDown == InitCacheDown /\ [][NextCacheDown]_vars

\* Concurrent requests over one pair of accounts, with the clock observed.
OrderArgs == [pairs |-> {<<1, 2>>, <<2, 1>>}, amounts |-> {Cent},
              currencies |-> {"USD"}, keys |-> {"k1", "k2"}, ids |-> MaxTxn]

NextOrder ==
    \/ \E p \in Procs : BeginTransfer(p, OrderArgs)
    \/ \E p \in Procs : BeginReverse(p, OrderArgs)
    \/ \E p \in Procs : ReverseTransfer(p, OrderArgs)
    \/ \E p \in Procs : LockFrom(p)
    \/ \E p \in Procs : LockTo(p)
    \/ \E p \in Procs : DeadlockVictim(p)
    \/ \E p \in Procs : ValidateAndInsert(p)
    \/ \E p \in Procs : Mutate(p)
    \/ \E p \in Procs : MutateFail(p)
    \/ \E p \in Procs : FailAfterCompleted(p)
    \/ \E p \in Procs : Commit(p)
    \/ \E p \in Procs : Rollback(p)
    \/ ClockTick

SpecOrder == Init /\ [][NextOrder]_vars

\* ------------------------------------------------- transaction history
\* start_date or end_date left out (None).
NoDate == 0

\* Filters that leave out the transactions created exactly at a bound.
MatchesInside(t, account_id, start_date, end_date) ==
    /\ t.from_account_id = account_id \/ t.to_account_id = account_id
    /\ start_date # NoDate => t.created_at > start_date
    /\ end_date # NoDate => t.created_at < end_date

\* get_account_transactions, the filters: the account is the source or the
\* destination, and created_at is within the bounds that were given.
Matches(t, account_id, start_date, end_date) ==
    /\ t.from_account_id = account_id \/ t.to_account_id = account_id
    /\ start_date # NoDate => t.created_at >= start_date
    /\ end_date # NoDate => t.created_at <= end_date

\* ORDER BY created_at DESC over the rows S of table T: every order of S in
\* which created_at never rises; the database is free among equal timestamps.
OrderByCreatedAtDesc(T, S) ==
    {o \in [1..Cardinality(S) -> S] :
        \A i, j \in 1..Cardinality(S) :
            i < j => o[i] # o[j] /\ T[o[i]].created_at >= T[o[j]].created_at}

\* LIMIT limit OFFSET offset of the ordered rows o.
LimitOffset(T, o, limit, offset) ==
    [i \in 1..(IF Len(o) - offset < limit
               THEN (IF Len(o) > offset THEN Len(o) - offset ELSE 0)
               ELSE limit) |-> T[o[offset + i]]]

\* get_account_transactions over table T: the lists the query can return.
GetAccountTransactions(T, account_id, limit, offset, start_date, end_date) ==
    {LimitOffset(T, o, limit, offset) :
        o \in OrderByCreatedAtDesc(T,
                {id \in DOMAIN T : Matches(T[id], account_id, start_date, end_date)})}

\* The count the history endpoint reports: the length of the page it got.
TotalCount(transactions) == Len(transactions)

\* What the history requests draw their arguments from.
MaxLimit == 2
MaxOffset == 1
HistoryArgs == [accounts |-> {1, 2, MissingAccountId},
                limits |-> 1..MaxLimit, offsets |-> 0..MaxOffset,
                dates |-> {NoDate} \cup 1..MaxClock]

\* GET /transactions/account/{account_id}/history, asked by the account's
\* owner: 404 for an unknown account, else one page and its total_count.
GetTransactionHistory(D) ==
    /\ history = NoHistory
    /\ \A p \in Procs : pc[p] = "idle"
    /\ \E account_id \in D.accounts, limit \in D.limits, offset \in D.offsets,
          start_date \in D.dates, end_date \in D.dates :
         LET q == [asked |-> TRUE, account_id |-> account_id, limit |-> limit,
                   offset |-> offset, start_date |-> start_date,
                   end_date |-> end_date]
         IN IF account_id \notin DOMAIN accounts
            THEN history' = q @@ [err |-> "InvalidAccount", transactions |-> <<>>,
                                  total_count |-> 0]
            ELSE \E transactions \in GetAccountTransactions(txns, account_id,
                                        limit, offset, start_date, end_date) :
                    history' = q @@ [err |-> "none",
                                     transactions |-> transactions,
                                     total_count |-> TotalCount(transactions)]
    /\ UNCHANGED <<services, money, balcache>>

\* The answer has reached the client.
HistoryReturned ==
    /\ history # NoHistory
    /\ history' = NoHistory
    /\ UNCHANGED <<services, money, balcache>>

\* One client, one request at a time: transfers over one pair of accounts
\* while the clock moves, and history requests in between.
HistArgs == [pairs |-> {<<1, 1>>, <<1, 2>>}, amounts |-> {Cent},
             currencies |-> {"USD"}, keys |-> {"k1", "k2"}, ids |-> MaxTxn]

NextHist ==
    \/ history = NoHistory /\ BeginTransfer(SeqProc, HistArgs)
    \/ history = NoHistory /\ LockFrom(SeqProc)
    \/ history = NoHistory /\ LockTo(SeqProc)
    \/ history = NoHistory /\ ValidateAndInsert(SeqProc)
    \/ history = NoHistory /\ Mutate(SeqProc)
    \/ history = NoHistory /\ MutateFail(SeqProc)
    \/ history = NoHistory /\ FailAfterCompleted(SeqProc)
    \/ history = NoHistory /\ Commit(SeqProc)
    \/ history = NoHistory /\ Rollback(SeqProc)
    \/ history = NoHistory /\ ClockTick
    \/ GetTransactionHistory(HistoryArgs)
    \/ HistoryReturned

SpecHist == Init /\ [][NextHist]_vars

\* ------------------------------------------------- transaction details
\* The users that ask: the owners of the accounts and one who owns none.
Users == {1, 2, 3}

\* GET /transactions/{transaction_id} asked by user_id: 404 for an unknown
\* id, 403 when the source account is not the user's, else the transaction.
GetTransaction ==
    /\ history = NoHistory
    /\ \A p \in Procs : pc[p] = "idle"
    /\ \E user_id \in Users, transaction_id \in 1..nextTxnId :
         LET q == [asked |-> TRUE, user_id |-> user_id,
                   transaction_id |-> transaction_id]
             transaction == IF transaction_id \in DOMAIN txns
                            THEN txns[transaction_id] ELSE NoRow
         IN IF transaction = NoRow
            THEN history' = q @@ [status |-> 404, transaction |-> NoRow]
            ELSE IF /\ transaction.from_account_id # 0
                    /\ accounts[transaction.from_account_id].user_id # user_id
            THEN history' = q @@ [status |-> 403, transaction |-> NoRow]
            ELSE history' = q @@ [status |-> 200, transaction |-> transaction]
    /\ UNCHANGED <<services, money, balcache>>

\* One client at a time: transfers between the accounts of two users, and
\* requests for the details of a transaction in between.
ReadArgs == [pairs |-> {<<1, 2>>, <<1, 3>>, <<2, 1>>}, amounts |-> {Cent},
             currencies |-> {"USD"}, keys |-> {"k1", "k2"}, ids |-> MaxTxn]

NextRead ==
    \/ history = NoHistory /\ BeginTransfer(SeqProc, ReadArgs)
    \/ history = NoHistory /\ LockFrom(SeqProc)
    \/ history = NoHistory /\ LockTo(SeqProc)
    \/ history = NoHistory /\ ValidateAndInsert(SeqProc)
    \/ history = NoHistory /\ Mutate(SeqProc)
    \/ history = NoHistory /\ MutateFail(SeqProc)
    \/ history = NoHistory /\ FailAfterCompleted(SeqProc)
    \/ history = NoHistory /\ Commit(SeqProc)
    \/ history = NoHistory /\ Rollback(SeqProc)
    \/ GetTransaction
    \/ HistoryReturned

SpecRead == Init /\ [][NextRead]_vars

\* ------------------------------------------- idempotency manager alone
\* What direct calls of the idempotency service draw their arguments from.
ManagerArgs == [keys |-> {"k1", "k2"}, ids |-> 1..MaxTxn]

\* store_idempotency(key, transaction_id, response_data) called in a unit of
\* work of its own: the record is added to the session and the response is
\* written to the cache at once.
StoreCall(p, D) ==
    /\ pc[p] = "idle"
    /\ \E k \in D.keys, tid \in D.ids :
         /\ call' = [call EXCEPT ![p] = [kind |-> "store", key |-> k, orig |-> tid]]
         /\ sess' = [sess EXCEPT ![p] = StoreIdempotency(@, k, tid)]
         /\ cache' = CacheSet(cache, k, tid, IDEMPOTENCY_KEY_TTL_SECONDS)
    /\ pc' = [pc EXCEPT ![p] = "stored"]
    /\ UNCHANGED <<durable, locks, nextTxnId, now, money, history, balcache>>

\* db.commit() after store_idempotency: the insert fails on the primary key
\* when the table has a row of that key, expired or not; else the record is
\* durable.
StoreCommit(p) ==
    /\ pc[p] = "stored"
    /\ IF idem[call[p].key] # NoRow
       THEN /\ Raise(p, sess[p], "IntegrityError", 0)
            /\ UNCHANGED <<idem, call>>
       ELSE /\ idem' = [idem EXCEPT ![call[p].key] = sess[p].idem]
            /\ pc' = [pc EXCEPT ![p] = "idle"]
            /\ sess' = [sess EXCEPT ![p] = NoSess]
            /\ call' = [call EXCEPT ![p] = NoCall]
    /\ UNCHANGED <<accounts, txns, entries, audits, cache, locks, nextTxnId,
                   now, money, history, balcache>>

\* check_idempotency(key) called: a store hit refreshes the cache.
CheckCall(p, D) ==
    /\ pc[p] = "idle"
    /\ \E k \in D.keys : cache' = CheckIdempotencyCache(k)
    /\ cache' # cache
    /\ UNCHANGED <<durable, locks, nextTxnId, pc, call, sess, now, money, history, balcache>>

NextManager ==
    \/ StoreCall(SeqProc, ManagerArgs)
    \/ StoreCommit(SeqProc)
    \/ CheckCall(SeqProc, ManagerArgs)
    \/ Rollback(SeqProc)
    \/ CacheLost("k1")
    \/ Tick(1)

SpecManager == Init /\ [][NextManager]_vars

\* ------------------------------------------------------- balance reads
\* AccountService.get_balance(account_id), what it returns: the cached
\* balance when the cache has one, else the committed balance.
GetBalanceValue(account_id) ==
    IF balcache[account_id] # NoRow THEN balcache[account_id].balance
    ELSE accounts[account_id].balance

\* A get_balance call by another request, in a session of its own: on a cache
\* miss it reads the committed row and caches its balance.
GetBalance(account_id) ==
    /\ balcache[account_id] = NoRow
    /\ balcache' = [balcache EXCEPT ![account_id] =
                                    [balance |-> accounts[account_id].balance]]
    /\ UNCHANGED <<services, money, history>>

\* One transfer at a time between accounts 1 and 2, and balance reads of
\* both at any moment.
BalArgs == [pairs |-> {<<1, 2>>, <<2, 1>>}, amounts |-> {Cent},
            currencies |-> {"USD"}, keys |-> {"k1", "k2"}, ids |-> MaxTxn]

NextBal ==
    \/ BeginTransfer(SeqProc, BalArgs)
    \/ LockFrom(SeqProc)
    \/ LockTo(SeqProc)
    \/ ValidateAndInsert(SeqProc)
    \/ Mutate(SeqProc)
    \/ MutateFail(SeqProc)
    \/ FailAfterCompleted(SeqProc)
    \/ Commit(SeqProc)
    \/ Rollback(SeqProc)
    \/ \E id \in {1, 2} : GetBalance(id)

SpecBal == Init /\ [][NextBal]_vars

\* A call of one operation of Money.
NextMoney ==
    \/ DoInit
    \/ DoAdd
    \/ DoSub
    \/ DoMul
    \/ DoTruediv
    \/ DoEq
    \/ DoLt
    \/ DoLe
    \/ DoGt
    \/ DoGe
    \/ DoQuantize

SpecMoney == Init /\ [][NextMoney]_vars

\* Concurrent requests around one transfer and its reversals.
NextRev ==
    \/ \E p \in Procs : BeginTransfer(p, RevArgs)
    \/ \E p \in Procs : BeginReverse(p, RevArgs)
    \/ \E p \in Procs : ReverseTransfer(p, RevArgs)
    \/ \E p \in Procs : LockFrom(p)
    \/ \E p \in Procs : LockTo(p)
    \/ \E p \in Procs : DeadlockVictim(p)
    \/ \E p \in Procs : ValidateAndInsert(p)
    \/ \E p \in Procs : Mutate(p)
    \/ \E p \in Procs : MutateFail(p)
    \/ \E p \in Procs : FailAfterCompleted(p)
    \/ \E p \in Procs : Commit(p)
    \/ \E p \in Procs : Rollback(p)
    \/ Tick(IDEMPOTENCY_KEY_TTL_SECONDS)

SpecRev == Init /\ [][NextRev]_vars

\* ================================================================ claims
\* The step by which request p's unit of work commits.
CommitStep(p) == pc[p] = "returned" /\ pc'[p] = "idle" /\ txns' # txns

\* The change a step makes to the committed balance of account id.
DeltaBalance(id) == accounts'[id].balance - accounts[id].balance

\* The committed Transaction row that carries key k.
TxnOfKey(k) == CHOOSE id \in DOMAIN txns : txns[id].idempotency_key = k

\* ------------------------------------------------------------------- C1
\* C1 (conservation): when a transfer_money call that returned a COMPLETED
\* transaction commits, the change of the source's committed balance plus
\* the change of the destination's committed balance is zero, for any pair
\* of accounts, equal ones included.
C1_Conservation ==
    [][\A p \in Procs :
          (CommitStep(p) /\ sess[p].txn.status = "COMPLETED")
          => DeltaBalance(call[p].from) + DeltaBalance(call[p].to) = 0]_vars

\* ------------------------------------------------------------------- C2
\* C2 (non-negativity): in every reachable committed state every account's
\* balance is at least zero, under any interleaving of transfers and
\* reversals.
C2_NonNegativity == \A id \in DOMAIN accounts : accounts[id].balance >= 0

\* C2 witness: a source account has been drained to zero by a committed
\* transfer and a further debit of it was refused for lack of funds.
C2_Witness ==
    \E p \in Procs :
        /\ pc[p] = "failed"
        /\ sess[p].err = "InsufficientFunds"
        /\ accounts[call[p].from].balance = 0
        /\ \E id \in DOMAIN txns : txns[id].from_account_id = call[p].from

\* ------------------------------------------------------------------- C3
\* C3 (sequential idempotency): once a transfer with key k has committed,
\* any later transfer_money call with key k fails with DuplicateTransaction
\* naming the first transaction's id, and no second Transaction row with
\* that key is ever persisted.
C3_SequentialIdempotency ==
    /\ \A p \in Procs :
          (call[p].kind = "transfer" /\ KeyCommitted(call[p].key))
          => /\ pc[p] = "failed"
             /\ sess[p].err = "DuplicateTransaction"
             /\ sess[p].named = TxnOfKey(call[p].key)
    /\ \A i, j \in DOMAIN txns :
          txns[i].idempotency_key = txns[j].idempotency_key => i = j

\* ------------------------------------------------------------------- C4
\* C4 (concurrent idempotency): of two calls racing with the same key exactly
\* one Transaction row is persisted, and the loser, whose insert meets the
\* winner's committed row while the winner's idempotency record is live,
\* fails with DuplicateTransaction: the unique-key violation is not
\* surfaced as another kind of error.
C4_ConcurrentIdempotency ==
    /\ \A i, j \in DOMAIN txns :
          txns[i].idempotency_key = txns[j].idempotency_key => i = j
    /\ \A p \in Procs :
          (pc[p] = "failed" /\ call[p].kind = "transfer"
             /\ DbKey(call[p].key) # NoRow)
          => sess[p].err # "IntegrityError"

\* ------------------------------------------------------------------- C5
\* C5 (deadlock freedom): no reachable state has each of two transfers
\* holding one account's row lock while waiting for the other's, and no
\* transfer is failed as the victim of such a cycle.
C5_DeadlockFreedom ==
    \A p \in Procs : ~Deadlocked(p) /\ sess[p].err # "DeadlockDetected"


\* ------------------------------------------------------------------- C6
RECURSIVE SumAmounts(_)
\* The sum of the amounts of the committed Transaction rows with ids in S.
SumAmounts(S) ==
    IF S = {} THEN 0
    ELSE LET id == CHOOSE x \in S : TRUE
         IN txns[id].amount + SumAmounts(S \ {id})

\* The amounts the committed transactions credit to, and debit from, account a.
Credited(a) == SumAmounts({id \in DOMAIN txns : txns[id].to_account_id = a})
Debited(a) == SumAmounts({id \in DOMAIN txns : txns[id].from_account_id = a})

\* C6 (no lost update): after any set of transfers with distinct keys over
\* overlapping accounts has committed, each account's balance is its initial
\* balance plus the amounts credited to it minus the amounts debited from
\* it, and every committed call left one completed Transaction row.
C6_NoLostUpdate ==
    /\ \A a \in DOMAIN accounts :
          accounts[a].balance =
              InitialAccounts[a].balance + Credited(a) - Debited(a)
    /\ \A id \in DOMAIN txns : txns[id].status \in {"COMPLETED", "REVERSED"}

\* ------------------------------------------------------------------- C7
\* The committed journal entries of transaction id, in entry_id order.
EntriesOf(id) == SelectSeq(entries, LAMBDA e : e.transaction_id = id)

\* C7 (double-entry journal): every committed COMPLETED transaction has
\* exactly two journal entries, one DEBIT on its source account and one
\* CREDIT on its destination account, each with the transaction's amount and
\* currency; a transaction that is not committed has no committed entries.
C7_DoubleEntryJournal ==
    /\ \A id \in DOMAIN txns :
          txns[id].status = "COMPLETED" =>
             LET t == txns[id]
                 es == EntriesOf(id)
                 row(account_id, entry_type) ==
                     [transaction_id |-> id, account_id |-> account_id,
                      entry_type |-> entry_type, amount |-> t.amount,
                      currency |-> t.currency]
             IN /\ Len(es) = 2
                /\ \E i, j \in 1..2 :
                      /\ i # j
                      /\ es[i] = row(t.from_account_id, "DEBIT")
                      /\ es[j] = row(t.to_account_id, "CREDIT")
    /\ \A i \in 1..Len(entries) : entries[i].transaction_id \in DOMAIN txns

\* C7 witness: one transfer between two different accounts is committed and
\* COMPLETED with its entries, while another has returned with its two
\* entries pending in a unit of work that is not yet committed.
C7_Witness ==
    /\ \E id \in DOMAIN txns :
          /\ txns[id].status = "COMPLETED"
          /\ txns[id].from_account_id # txns[id].to_account_id
          /\ Len(EntriesOf(id)) = 2
    /\ \E p \in Procs : pc[p] = "returned" /\ Len(sess[p].entries) = 2

\* ------------------------------------------------------------------- C8
\* C8 (atomicity on failure): when a transfer fails after its Transaction row
\* was created, neither the failure nor the caller's rollback of the unit of
\* work changes the durable store: no Transaction row, journal entry, balance
\* or version change, audit row or idempotency record of the call persists.
C8_AtomicityOnFailure ==
    [][\A p \in Procs :
          (/\ sess[p].txn # NoRow
           /\ pc'[p] # pc[p]
           /\ (pc'[p] = "failed" \/ pc[p] = "failed"))
          => durable' = durable]_vars

\* C8 witness: a transfer has failed after its Transaction row was created
\* and after its first balance update, and awaits the caller's rollback.
C8_Witness ==
    \E p \in Procs :
        /\ pc[p] = "failed"
        /\ sess[p].txn # NoRow
        /\ sess[p].txn.status = "FAILED"
        /\ Len(sess[p].audits) > 0
        /\ sess[p].accts[call[p].from].balance # accounts[call[p].from].balance

\* ------------------------------------------------------------------- C9
\* C9 (reversal effect): when reverse_transaction on a COMPLETED transfer T
\* (A to B, amount m) returns and commits, B's balance has gone down by m and
\* A's has gone up by m, T is REVERSED, and a new transaction exists with
\* type REVERSAL, status COMPLETED, source B, destination A, T's amount and
\* currency, and a reference to T's id.
C9_ReversalEffect ==
    [][\A p \in Procs :
          (CommitStep(p) /\ call[p].kind = "reverse") =>
             LET T == call[p].orig
                 A == txns[T].from_account_id
                 B == txns[T].to_account_id
                 m == txns[T].amount
                 R == sess[p].txn.transaction_id
             IN /\ \A x \in {A, B} :
                      DeltaBalance(x) = (IF x = A THEN m ELSE 0)
                                        - (IF x = B THEN m ELSE 0)
                /\ txns'[T].status = "REVERSED"
                /\ R \in DOMAIN txns'
                /\ txns'[R].transaction_type = "REVERSAL"
                /\ txns'[R].status = "COMPLETED"
                /\ txns'[R].from_account_id = B
                /\ txns'[R].to_account_id = A
                /\ txns'[R].amount = m
                /\ txns'[R].currency = txns[T].currency
                /\ txns'[R].reference_id = T]_vars

\* ------------------------------------------------------------------ C10
\* The committed reversals of transaction T.
ReversalsOf(T) ==
    {r \in DOMAIN txns : /\ txns[r].transaction_type = "REVERSAL"
                         /\ txns[r].reference_id = T}

\* C10 (reversal precondition): reverse_transaction on a transaction that
\* does not exist or whose status is not COMPLETED fails with nothing written
\* and no lock taken, and with sequential calls a transaction is reversed at
\* most once.
C10_ReversalPrecondition ==
    /\ \A p \in Procs :
          (/\ call[p].kind = "reverse"
           /\ (call[p].orig \notin DOMAIN txns
                 \/ txns[call[p].orig].status # "COMPLETED"))
          => /\ pc[p] = "failed"
             /\ sess[p].err \in {"InvalidAccount", "InvalidAmount"}
             /\ [sess[p] EXCEPT !.err = "none"] = NoSess
             /\ \A id \in DOMAIN locks : locks[id] # p
    /\ \A T \in DOMAIN txns : Cardinality(ReversalsOf(T)) <= 1

\* C10 witness: transaction T is REVERSED with its one committed reversal, and
\* a further reverse_transaction on T has just been refused.
C10_Witness ==
    \E p \in Procs :
        /\ call[p].kind = "reverse"
        /\ pc[p] = "failed"
        /\ call[p].orig \in DOMAIN txns
        /\ txns[call[p].orig].status = "REVERSED"
        /\ Cardinality(ReversalsOf(call[p].orig)) = 1

\* ------------------------------------------------------------------ C11
\* C11 (concurrent reversal): when reverse_transaction calls for the same
\* COMPLETED original run concurrently with distinct keys, at most one of
\* them moves funds: no more than one committed REVERSAL transaction
\* references the original.
C11_ConcurrentReversal ==
    \A T \in DOMAIN txns :
        \A r1, r2 \in ReversalsOf(T) : r1 = r2

\* ------------------------------------------------------------------ C12
\* C12 (failed reversal): if the transfer inside reverse_transaction fails,
\* the error reaches the caller with the original still COMPLETED in the
\* unit of work, and neither the failure nor the caller's rollback changes
\* the durable store: the original's status and type and every balance stay
\* as they were.
C12_FailedReversal ==
    [][\A p \in Procs :
          /\ (/\ call[p].kind = "reverse"
              /\ pc[p] \in {"check", "lock_from", "lock_to", "validate", "mutate"}
              /\ pc'[p] = "failed")
             => /\ sess'[p].err # "none"
                /\ sess'[p].orig = [transaction_id |-> call[p].orig,
                                    status |-> "COMPLETED"]
                /\ durable' = durable
          /\ (/\ call[p].kind = "reverse"
              /\ pc[p] = "failed"
              /\ pc'[p] = "idle")
             => /\ durable' = durable
                /\ call[p].orig \in DOMAIN txns
                   => txns'[call[p].orig] = txns[call[p].orig]]_vars

\* C12 witness: the destination of a COMPLETED transfer has since been
\* drained, and the transfer inside its reversal has failed for lack of funds.
C12_Witness ==
    \E p \in Procs :
        /\ call[p].kind = "reverse"
        /\ pc[p] = "failed"
        /\ sess[p].err = "InsufficientFunds"
        /\ call[p].orig \in DOMAIN txns
        /\ txns[call[p].orig].status = "COMPLETED"

\* ------------------------------------------------------------------ C13
\* The status changes the lifecycle allows.
StatusStep(a, b) ==
    \/ a = b
    \/ <<a, b>> \in {<<"PENDING", "COMPLETED">>, <<"PENDING", "FAILED">>,
                     <<"COMPLETED", "REVERSED">>}

\* The same, and COMPLETED to FAILED inside the unit of work that raised.
StatusStepInMemory(a, b) ==
    StatusStep(a, b) \/ <<a, b>> = <<"COMPLETED", "FAILED">>

\* C13 (status machine): a Transaction, in a unit of work or committed,
\* starts PENDING and changes status only along PENDING->COMPLETED,
\* PENDING->FAILED and COMPLETED->REVERSED; FAILED and REVERSED never change
\* and COMPLETED never becomes FAILED or PENDING, also when a step after the
\* status was set to COMPLETED raises.
C13_StatusMachine ==
    [][/\ \A p \in Procs :
             sess'[p].txn # NoRow =>
                IF sess[p].txn = NoRow
                THEN sess'[p].txn.status = "PENDING"
                ELSE StatusStep(sess[p].txn.status, sess'[p].txn.status)
       /\ \A id \in DOMAIN txns :
             StatusStep(txns[id].status, txns'[id].status)
       /\ \A p \in Procs :
             CommitStep(p) =>
                StatusStep(sess[p].txn.status,
                           txns'[sess[p].txn.transaction_id].status)]_vars

\* C13 as the code keeps it: the same lifecycle, except that inside a unit
\* of work a COMPLETED Transaction becomes FAILED when a later step of the
\* same call raises; a committed Transaction is COMPLETED when it is first
\* committed and afterwards changes only from COMPLETED to REVERSED.
C13_StatusMachineAmended ==
    [][/\ \A p \in Procs :
             sess'[p].txn # NoRow =>
                IF sess[p].txn = NoRow
                THEN sess'[p].txn.status = "PENDING"
                ELSE /\ StatusStepInMemory(sess[p].txn.status,
                                           sess'[p].txn.status)
                     /\ sess'[p].txn.status = "FAILED" => pc'[p] = "failed"
       /\ \A id \in DOMAIN txns :
             /\ StatusStep(txns[id].status, txns'[id].status)
             /\ txns[id].status # "PENDING"
       /\ \A p \in Procs :
             CommitStep(p) =>
                /\ sess[p].txn.status = "COMPLETED"
                /\ txns'[sess[p].txn.transaction_id].status = "COMPLETED"]_vars

\* C13 witness: a transfer whose status had been set to COMPLETED, with its
\* journal entries and idempotency record pending, has been marked FAILED by
\* the error handler.
C13_Witness ==
    \E p \in Procs :
        /\ pc[p] = "failed"
        /\ sess[p].txn # NoRow
        /\ sess[p].txn.status = "FAILED"
        /\ Len(sess[p].entries) = 2
        /\ sess[p].idem # NoRow

\* ------------------------------------------------------------------ C14
\* Request p is a transfer between existing ACTIVE accounts in the amount's
\* currency, of a positive amount, under a key no committed transaction has.
FundsCheckApplies(p) ==
    /\ call[p].kind = "transfer"
    /\ call[p].from \in DOMAIN accounts
    /\ call[p].to \in DOMAIN accounts
    /\ accounts[call[p].from].status = "ACTIVE"
    /\ accounts[call[p].to].status = "ACTIVE"
    /\ accounts[call[p].from].currency = call[p].currency
    /\ accounts[call[p].to].currency = call[p].currency
    /\ call[p].amount > 0
    /\ ~KeyCommitted(call[p].key)

\* Where such a request stands, against its source's committed balance.
FundsCheckOutcome(p) ==
    LET short == accounts[call[p].from].balance < call[p].amount IN
    /\ pc[p] = "failed" => (sess[p].err = "InsufficientFunds" <=> short)
    /\ pc[p] \in {"mutate", "returned"} => ~short
    /\ sess[p].err = "InsufficientFunds" => sess[p].txn = NoRow

\* C14 (funds check): given existing ACTIVE accounts, matching currencies, a
\* positive amount and a fresh key, transfer_money fails with
\* InsufficientFunds if and only if the source's balance is below the amount;
\* then no Transaction row exists and no balance changes; a transfer of
\* exactly the whole balance succeeds and leaves the source at 0.
C14_FundsCheck ==
    [][\A p \in Procs :
          /\ FundsCheckApplies(p)' => FundsCheckOutcome(p)'
          /\ (FundsCheckApplies(p) /\ sess[p].err = "InsufficientFunds"
                /\ pc'[p] = "idle")
             => durable' = durable
          /\ (FundsCheckApplies(p) /\ CommitStep(p)
                /\ call[p].amount = accounts[call[p].from].balance)
             => accounts'[call[p].from].balance = 0]_vars

\* ------------------------------------------------------------------ C15
\* Request p is a transfer of a positive amount between existing ACTIVE
\* accounts: unless its key is a duplicate, it gets to the currency checks.
CurrencyCheckApplies(p) ==
    /\ call[p].kind = "transfer"
    /\ call[p].from \in DOMAIN accounts
    /\ call[p].to \in DOMAIN accounts
    /\ accounts[call[p].from].status = "ACTIVE"
    /\ accounts[call[p].to].status = "ACTIVE"
    /\ call[p].amount > 0

\* The three currencies of request p are not all equal.
CurrenciesDiffer(p) ==
    \/ accounts[call[p].from].currency # call[p].currency
    \/ accounts[call[p].to].currency # call[p].currency

\* Where such a request stands, against the three currencies.
CurrencyCheckOutcome(p) ==
    /\ CurrenciesDiffer(p) =>
          /\ pc[p] \notin {"mutate", "returned"}
          /\ sess[p].txn = NoRow
          /\ pc[p] = "failed" =>
                sess[p].err \in {"CurrencyMismatch", "DuplicateTransaction"}
    /\ sess[p].err = "CurrencyMismatch" => CurrenciesDiffer(p)

\* C15 (currency consistency): a transfer that gets to the currency checks
\* (positive amount, existing ACTIVE accounts, key not rejected as a
\* duplicate) fails with CurrencyMismatch whenever the source's, the
\* destination's and the amount's currencies are not all equal, and only
\* then; it creates no Transaction and changes nothing durable; every
\* persisted TRANSFER has both accounts in the transaction's currency.
C15_CurrencyConsistency ==
    [][/\ \A p \in Procs :
             /\ CurrencyCheckApplies(p)' => CurrencyCheckOutcome(p)'
             /\ (sess[p].err = "CurrencyMismatch" /\ pc'[p] = "idle")
                => durable' = durable
       /\ \A id \in DOMAIN txns' :
             txns'[id].transaction_type = "TRANSFER" =>
                /\ accounts'[txns'[id].from_account_id].currency = txns'[id].currency
                /\ accounts'[txns'[id].to_account_id].currency = txns'[id].currency]_vars

\* C15 witness: a transfer in the source's currency to an account of another
\* currency has failed with CurrencyMismatch, after an earlier transfer was
\* committed.
C15_Witness ==
    \E p \in Procs :
        /\ pc[p] = "failed"
        /\ sess[p].err = "CurrencyMismatch"
        /\ accounts[call[p].from].currency = call[p].currency
        /\ accounts[call[p].to].currency # call[p].currency
        /\ DOMAIN txns # {}

\* ------------------------------------------------------------------ C16
\* Account id does not exist / exists with a status other than ACTIVE.
Missing(id) == id \notin DOMAIN accounts
NotActive(id) == id \in DOMAIN accounts /\ accounts[id].status # "ACTIVE"

\* The error the acquisition of request p's accounts ends with, source
\* first, or "none".
AcquisitionError(p) ==
    IF Missing(call[p].from) THEN "InvalidAccount"
    ELSE IF NotActive(call[p].from) THEN "AccountSuspended"
    ELSE IF Missing(call[p].to) THEN "InvalidAccount"
    ELSE IF NotActive(call[p].to) THEN "AccountSuspended"
    ELSE "none"

\* Where a transfer of a positive amount stands, against its accounts.
AcquisitionOutcome(p) ==
    /\ AcquisitionError(p) # "none" =>
          /\ pc[p] \notin {"validate", "mutate", "returned"}
          /\ sess[p].txn = NoRow /\ sess[p].entries = <<>>
          /\ sess[p].audits = <<>> /\ sess[p].idem = NoRow
          /\ pc[p] = "failed" =>
                sess[p].err \in {AcquisitionError(p), "DuplicateTransaction"}
    /\ sess[p].err = "InvalidAccount" =>
          Missing(call[p].from) \/ Missing(call[p].to)
    /\ sess[p].err = "AccountSuspended" =>
          NotActive(call[p].from) \/ NotActive(call[p].to)

\* C16 (account acquisition errors): a transfer that gets to its account
\* acquisition (positive amount, key not rejected as a duplicate) fails with
\* InvalidAccount when an account id does not exist and with
\* AccountSuspended when an account exists with a status other than ACTIVE;
\* then no balance, version, transaction, entry, audit row or idempotency
\* record changes, and no account that is not ACTIVE is ever debited or
\* credited.
C16_AccountAcquisition ==
    [][/\ \A p \in Procs :
             /\ (call'[p].kind = "transfer" /\ call'[p].amount > 0)
                => AcquisitionOutcome(p)'
             /\ (sess[p].err \in {"InvalidAccount", "AccountSuspended"}
                   /\ pc'[p] = "idle")
                => durable' = durable
       /\ \A id \in DOMAIN accounts :
             accounts[id].status # "ACTIVE" => accounts'[id] = accounts[id]
       /\ \A id \in DOMAIN txns' :
             /\ ~NotActive(txns'[id].from_account_id)
             /\ ~NotActive(txns'[id].to_account_id)]_vars

\* C16 witness: with an earlier transfer committed, a transfer from an ACTIVE
\* account, holding that account's lock, has failed with AccountSuspended on
\* its suspended destination.
C16_Witness ==
    \E p \in Procs :
        /\ pc[p] = "failed"
        /\ sess[p].err = "AccountSuspended"
        /\ NotActive(call[p].to)
        /\ locks[call[p].from] = p
        /\ DOMAIN txns # {}

\* C16 second case: a transfer to an account id that does not exist has
\* failed with InvalidAccount.
C16_WitnessMissing ==
    \E p \in Procs :
        /\ pc[p] = "failed"
        /\ sess[p].err = "InvalidAccount"
        /\ call[p].kind = "transfer"
        /\ Missing(call[p].to)

\* ------------------------------------------------------------------ C17
\* Request p is a transfer whose amount is zero or not positive.
NonPositiveAmount(p) ==
    call[p].kind = "transfer"
        /\ (IsZero(call[p].amount) \/ ~IsPositive(call[p].amount))

\* C17 (amount validation): a transfer_money call with a zero or otherwise
\* non-positive amount, its key not rejected as a duplicate, fails with
\* InvalidAmount at once: it never holds or requests an account lock, adds
\* nothing to its unit of work, and neither the call nor the rollback that
\* follows changes the store, the cache or the id sequence; no transfer_money
\* call with a positive amount fails with InvalidAmount.
C17_AmountValidation ==
    [][\A p \in Procs :
          /\ NonPositiveAmount(p)' =>
                /\ pc'[p] \in {"failed", "idle"}
                /\ \A id \in DOMAIN locks' : locks'[id] # p
                /\ sess'[p].accts = NoSess.accts /\ sess'[p].txn = NoRow
                /\ sess'[p].entries = <<>> /\ sess'[p].audits = <<>>
                /\ sess'[p].idem = NoRow
                /\ pc'[p] = "failed" =>
                      /\ sess'[p].err \in {"InvalidAmount",
                                           "DuplicateTransaction"}
                      /\ sess'[p].err = "DuplicateTransaction"
                            => KeyCommitted(call'[p].key)
                /\ (pc[p] # pc'[p] /\ (pc'[p] = "idle"
                                        \/ sess'[p].err = "InvalidAmount"))
                      => UNCHANGED <<durable, cache, locks, nextTxnId>>
          /\ (call'[p].kind = "transfer" /\ pc'[p] = "failed"
                /\ sess'[p].err = "InvalidAmount")
                => NonPositiveAmount(p)']_vars

\* C17 witness: with an earlier transfer committed, a transfer of a zero
\* amount has failed with InvalidAmount.
C17_Witness ==
    \E p \in Procs :
        /\ pc[p] = "failed"
        /\ sess[p].err = "InvalidAmount"
        /\ NonPositiveAmount(p)
        /\ DOMAIN txns # {}

\* ------------------------------------------------------------------ C18
\* The audit rows a step commits, and those of them for account id.
NewAudits == SubSeq(audits', Len(audits) + 1, Len(audits'))
NewAuditsOf(id) == SelectSeq(NewAudits, LAMBDA a : a.account_id = id)

\* The balance mutations request p's transfer performs on account id.
MutationsOf(p, id) ==
    (IF call[p].from = id THEN 1 ELSE 0) + (IF call[p].to = id THEN 1 ELSE 0)

\* C18 (audit completeness): when a transfer commits, each involved account
\* has exactly one committed audit row per balance mutation of the transfer;
\* the rows of an account chain from its balance before the commit to its
\* balance after it, old_balance to new_balance.
C18_AuditCompleteness ==
    [][\A p \in Procs : CommitStep(p) =>
          \A id \in {call[p].from, call[p].to} :
             LET rows == NewAuditsOf(id) IN
             /\ Len(rows) = MutationsOf(p, id)
             /\ rows[1].old_balance = accounts[id].balance
             /\ rows[Len(rows)].new_balance = accounts'[id].balance
             /\ \A i \in 1..(Len(rows) - 1) :
                   rows[i].new_balance = rows[i + 1].old_balance]_vars

\* ------------------------------------------------------------------ C19
\* Key k was given to a transfer whose unit of work was rolled back after
\* store_idempotency: the cache holds its response, no Transaction row of
\* that id or of that key was committed.
Abandoned(k) ==
    /\ cache[k] # NoRow
    /\ cache[k].tid \notin DOMAIN txns
    /\ ~KeyCommitted(k)

\* Request p is a transfer_money call that retries an abandoned key.
Retry(p) ==
    /\ call[p].kind = "transfer"
    /\ Abandoned(call[p].key)
    /\ \A q \in Procs : sess[q].txn = NoRow \/ sess[q].txn.transaction_id # cache[call[p].key].tid

C19_WitnessCommitted ==
    \E id \in DOMAIN txns :
        /\ id > 1
        /\ 1 \notin DOMAIN txns
        /\ txns[id].status = "COMPLETED"
        /\ idem[txns[id].idempotency_key] # NoRow
        /\ idem[txns[id].idempotency_key].transaction_id = id

\* ------------------------------------------------------------------ C20
\* C20 (lazy expiry): once the stored record of a key has reached its
\* expires_at, check_idempotency returns none for the key, whatever checks
\* were made before; and a cache entry holding the record's response never
\* lives longer than the record.
C20_LazyExpiry ==
    \A k \in Keys :
        idem[k] # NoRow =>
           /\ idem[k].expires_at = 0 => CheckIdempotency(k) = 0
           /\ (CacheGet(k) # NoRow /\ CacheGet(k).tid = idem[k].transaction_id)
                 => CacheGet(k).exp <= idem[k].expires_at

\* ------------------------------------------------------------------ C21
\* C21 (cache failures are non-fatal): while the cache fails on every
\* operation, a transfer_money call still returns a COMPLETED transaction
\* carrying the key's record; its commit makes the row, the record and the
\* movement of the amount durable; and a later transfer_money call with the
\* key of a live durable record fails with DuplicateTransaction naming the
\* recorded transaction.
C21_CacheFailuresNonFatal ==
    [][\A p \in Procs :
          /\ \A k \in Keys : cache'[k] = Unreachable
          /\ (pc[p] = "mutate" /\ pc'[p] = "returned")
             => /\ sess'[p].txn.status = "COMPLETED"
                /\ sess'[p].idem.idempotency_key = call[p].key
                /\ sess'[p].idem.transaction_id = sess'[p].txn.transaction_id
          /\ (CommitStep(p) /\ call[p].kind = "transfer")
             => /\ sess[p].txn.transaction_id \in DOMAIN txns'
                /\ txns'[sess[p].txn.transaction_id].status = "COMPLETED"
                /\ idem'[call[p].key].transaction_id = sess[p].txn.transaction_id
                /\ DeltaBalance(call[p].from) = - call[p].amount
                /\ DeltaBalance(call[p].to) = call[p].amount
          /\ (pc[p] = "idle" /\ call'[p].kind = "transfer"
                /\ DbKey(call'[p].key) # NoRow)
             => /\ pc'[p] = "failed"
                /\ sess'[p].err = "DuplicateTransaction"
                /\ sess'[p].named = DbKey(call'[p].key).transaction_id]_vars

\* C21 witness: with the cache failing, a call that repeats the key of a
\* committed transfer has failed with DuplicateTransaction.
C21_Witness ==
    \E p \in Procs :
        /\ \A k \in Keys : cache[k] = Unreachable
        /\ pc[p] = "failed"
        /\ sess[p].err = "DuplicateTransaction"
        /\ KeyCommitted(call[p].key)
        /\ sess[p].named = TxnOfKey(call[p].key)

\* ------------------------------------------------------------------ C22
\* Transactions t and u involve a common account.
ShareAccount(t, u) ==
    {t.from_account_id, t.to_account_id}
        \cap {u.from_account_id, u.to_account_id} # {}

\* C22 (per-account completion order): when a unit of work commits a
\* COMPLETED transaction and so releases its account locks, no COMPLETED
\* transaction committed before it (its locks released earlier) on a common
\* account has a later completed_at.
C22_CompletionOrder ==
    [][\A p \in Procs :
          (CommitStep(p) /\ sess[p].txn.status = "COMPLETED") =>
             \A id \in DOMAIN txns :
                (txns[id].status = "COMPLETED"
                    /\ ShareAccount(txns[id], sess[p].txn))
                => txns[id].completed_at <= sess[p].txn.completed_at]_vars

\* C22 witness: two COMPLETED transactions on a common account are committed
\* with different completed_at.
C22_Witness ==
    \E t, u \in DOMAIN txns :
        /\ t < u
        /\ txns[t].status = "COMPLETED" /\ txns[u].status = "COMPLETED"
        /\ ShareAccount(txns[t], txns[u])
        /\ txns[t].completed_at # txns[u].completed_at

\* ------------------------------------------------------------------ C23
\* The balance mutations of account id in the unit of work of request p.
SessionMutations(p, id) ==
    (IF sess[p].txn.from_account_id = id THEN 1 ELSE 0)
        + (IF sess[p].txn.to_account_id = id THEN 1 ELSE 0)

\* The committed balance mutations of account id: one for each committed
\* transaction per side it has the account on.
CommittedMutations(id) ==
    Cardinality({t \in DOMAIN txns : txns[t].from_account_id = id})
        + Cardinality({t \in DOMAIN txns : txns[t].to_account_id = id})

\* C23 (version counter): each update_balance adds exactly 1 to the version
\* of the account object, so the commit of a unit of work adds to each
\* account's committed version the number of balance mutations the unit of
\* work made on it; no other step changes a committed version, a rollback
\* included; a version never decreases and always equals the initial 0 plus
\* the number of committed balance mutations.
C23_VersionCounter ==
    [][/\ \A p \in Procs : CommitStep(p) =>
             \A id \in DOMAIN accounts :
                accounts'[id].version
                    = accounts[id].version + SessionMutations(p, id)
       /\ (\A p \in Procs : ~CommitStep(p)) =>
             \A id \in DOMAIN accounts :
                accounts'[id].version = accounts[id].version
       /\ \A p \in Procs :
             (pc[p] = "mutate" /\ pc'[p] = "returned") =>
                \A id \in DOMAIN sess[p].accts :
                   sess'[p].accts[id].version
                       = sess[p].accts[id].version + SessionMutations(p, id)
       /\ \A id \in DOMAIN accounts :
             /\ accounts'[id].version >= accounts[id].version
             /\ accounts'[id].version = CommittedMutations(id)']_vars

\* C23 witness: with no request in flight, an account has version 2 after
\* two committed balance mutations, and a unit of work that had mutated
\* balances was rolled back (its response is in the cache, its transaction is
\* not in the store).
C23_Witness ==
    /\ \A p \in Procs : pc[p] = "idle"
    /\ \E id \in DOMAIN accounts :
          accounts[id].version = 2 /\ CommittedMutations(id) = 2
    /\ \E k \in Keys : cache[k] # NoRow /\ cache[k].tid \notin DOMAIN txns

\* ------------------------------------------------------------------ C24
\* The last Money operation was `op` on two Money values of different
\* currency tags.
AcrossCurrencies(ops) ==
    money.op \in ops /\ money.a.currency # money.b.currency

\* C24 (currency parity in Money), as the specification states it: add, sub
\* and the ordering comparisons on two Money values of different currencies
\* fail with CurrencyMismatch and give no value; equality gives false.
C24_CurrencyParity ==
    /\ AcrossCurrencies({"add", "sub", "lt", "le", "ge", "gt"})
          => money.out.err = "CurrencyMismatch" /\ money.out.val = NoRow
    /\ AcrossCurrencies({"eq"})
          => money.out.err = "none" /\ money.out.val = FALSE

\* C24 as the code has it: the failure is the built-in ValueError, not the
\* engine's CurrencyMismatch kind; equality gives false and does not fail.
C24_CurrencyParityAmended ==
    /\ AcrossCurrencies({"add", "sub", "lt", "le", "ge", "gt"})
          => money.out.err = "ValueError" /\ money.out.val = NoRow
    /\ AcrossCurrencies({"eq"})
          => money.out.err = "none" /\ money.out.val = FALSE

\* C24 witness: an ordering comparison of a USD value with a EUR value of
\* the same amount has failed.
C24_Witness ==
    /\ AcrossCurrencies({"lt"})
    /\ money.a.amount = money.b.amount
    /\ money.out.err # "none"

\* ------------------------------------------------------------------ C25
\* The operations of Money that produce a Money value.
Producers == {"init", "add", "sub", "mul", "div", "quantize"}

\* No operation has produced a Money value with a negative amount, and a
\* multiplication or division of a positive amount by a negative scalar has
\* produced none at all.
NeverNegative ==
    /\ (money.op \in Producers /\ money.out.err = "none")
          => money.out.val.amount.c >= 0
    /\ (money.op \in {"mul", "div"} /\ money.a.amount.c > 0 /\ money.b.c < 0)
          => money.out.err # "none" /\ money.out.val = NoRow

\* The last operation was sub(a, b) on one currency with a < b.
SubBelowZero ==
    /\ money.op = "sub"
    /\ money.a.currency = money.b.currency
    /\ DecLt(money.a.amount, money.b.amount)

\* C25 (Money non-negativity), as the specification states it: every Money
\* value produced has amount >= 0 and sub(a, b) with a < b fails with
\* NegativeResult.
C25_MoneyNonNegativity ==
    /\ NeverNegative
    /\ SubBelowZero => money.out.err = "NegativeResult" /\ money.out.val = NoRow

\* C25 as the code has it: sub(a, b) with a < b fails with the built-in
\* ValueError.
C25_MoneyNonNegativityAmended ==
    /\ NeverNegative
    /\ SubBelowZero => money.out.err = "ValueError" /\ money.out.val = NoRow

\* C25 witness: the multiplication of a positive amount by a negative scalar
\* has failed.
C25_Witness ==
    /\ money.op = "mul"
    /\ money.a.amount.c > 0 /\ money.b.c < 0
    /\ money.out.err = "ValueError"

\* ------------------------------------------------------------------ C26
\* The digits coefficient c needs once its trailing zeros are dropped.
RECURSIVE SigDigits(_)
SigDigits(c) ==
    IF c = 0 THEN 1
    ELSE IF c % 10 = 0 THEN SigDigits(c \div 10) ELSE NumDigits(c)

\* The last operation was an addition on one currency or a multiplication by
\* a scalar that is not negative; the exact decimal result of it.
Arithmetic ==
    \/ money.op = "add" /\ money.a.currency = money.b.currency
    \/ money.op = "mul" /\ money.b.c >= 0

ExactResult ==
    IF money.op = "add" THEN ExactAdd(money.a.amount, money.b.amount)
    ELSE ExactMul(money.a.amount, money.b)

\* Decimal d is `exact` rounded to the context's precision, ties away from
\* zero: at most prec digits, at most half a unit of its last digit away, and
\* above `exact` when exactly half a unit away.
RoundedFrom(d, exact) ==
    LET diff == ExactSub(d, exact) IN
    /\ NumDigits(d.c) <= DecimalPrec
    /\ 2 * Abs(diff.c) * Pow10(diff.e - Min(d.e, exact.e))
          <= Pow10(d.e - Min(d.e, exact.e))
    /\ 2 * Abs(diff.c) * Pow10(diff.e - Min(d.e, exact.e))
          = Pow10(d.e - Min(d.e, exact.e)) => diff.c > 0

\* C26 (no float drift), as the specification states it: add(a, b) is the
\* exact decimal sum and mul(m, k) the exact decimal product.
C26_NoFloatDrift ==
    Arithmetic =>
        /\ money.out.err = "none"
        /\ DecEq(money.out.val.amount, ExactResult)

\* C26 as the code has it: the sum and the product are exact whenever the
\* exact result can be written with at most prec significant digits;
\* otherwise they are the exact result rounded to prec significant digits,
\* ties away from zero.
C26_NoFloatDriftAmended ==
    Arithmetic =>
        /\ money.out.err = "none"
        /\ IF SigDigits(ExactResult.c) <= DecimalPrec
           THEN DecEq(money.out.val.amount, ExactResult)
           ELSE RoundedFrom(money.out.val.amount, ExactResult)

\* C26 witness: 0.10 + 0.20 has given 0.30.
C26_Witness ==
    /\ money.op = "add"
    /\ money.a.amount = [c |-> 10, e |-> -2]
    /\ money.b.amount = [c |-> 20, e |-> -2]
    /\ money.out.err = "none"
    /\ money.out.val.amount = [c |-> 30, e |-> -2]

\* C26 witness for the product: 0.1 * 3 has given 0.3.
C26_WitnessMul ==
    /\ money.op = "mul"
    /\ money.a.amount = [c |-> 1, e |-> -1]
    /\ money.b = [c |-> 3, e |-> 0]
    /\ money.out.err = "none"
    /\ money.out.val.amount = [c |-> 3, e |-> -1]

\* ------------------------------------------------------------------ C27
\* Decimal r is decimal m rounded to n fractional digits, ties away from
\* zero: it has exponent -n, lies at most half a unit of that digit from m,
\* and lies above m when exactly half a unit away (m is not negative).
IsRounding(r, m, n) ==
    LET diff == ExactSub(r, m)
        e0 == Min(diff.e, -n)
    IN /\ r.e = -n
       /\ 2 * Abs(diff.c) * Pow10(diff.e - e0) <= Pow10(-n - e0)
       /\ 2 * Abs(diff.c) * Pow10(diff.e - e0) = Pow10(-n - e0) => diff.c > 0

\* The rounding of m to n fractional digits can be written with the
\* context's precision.
RoundingFits(m, n) ==
    \E c \in 0..(Pow10(DecimalPrec) - 1) : IsRounding([c |-> c, e |-> -n], m, n)

\* C27 (quantize), as the specification states it: quantize(m, n) returns a
\* Money of m's currency whose amount is m's amount rounded to n fractional
\* digits, ties away from zero.
C27_Quantize ==
    money.op = "quantize" =>
        /\ money.out.err = "none"
        /\ money.out.val.currency = money.a.currency
        /\ IsRounding(money.out.val.amount, money.a.amount, money.b)

\* C27 as the code has it: so it is whenever the rounded amount is zero or
\* can be written with the context's precision; otherwise quantize fails
\* with InvalidOperation and returns nothing.
C27_QuantizeAmended ==
    money.op = "quantize" =>
        IF money.a.amount.c = 0 \/ RoundingFits(money.a.amount, money.b)
        THEN /\ money.out.err = "none"
             /\ money.out.val.currency = money.a.currency
             /\ IsRounding(money.out.val.amount, money.a.amount, money.b)
        ELSE money.out.err = "InvalidOperation" /\ money.out.val = NoRow

\* C27 witness: 0.15 quantized to one fractional digit has given 0.2.
C27_Witness ==
    /\ money.op = "quantize"
    /\ money.a.amount = [c |-> 15, e |-> -2]
    /\ money.b = 1
    /\ money.out.err = "none"
    /\ money.out.val.amount = [c |-> 2, e |-> -1]

\* ------------------------------------------------------------------ C28
\* The transport status the specification gives each engine error kind.
StatedStatus(err) ==
    CASE err = "DuplicateTransaction" -> 409
      [] err \in {"InsufficientFunds", "InvalidAmount", "CurrencyMismatch"} -> 400
      [] err = "InvalidAccount" -> 404
      [] err = "AccountSuspended" -> 403

EngineErrors ==
    {"DuplicateTransaction", "InsufficientFunds", "InvalidAmount",
     "CurrencyMismatch", "InvalidAccount", "AccountSuspended"}

\* C28 (error mapping of POST /transfers): when a transfer has failed with an
\* engine error kind, the endpoint's rollback leaves the durable state as it
\* was and the answer carries the status stated for that kind:
\* DuplicateTransaction 409, InsufficientFunds / InvalidAmount /
\* CurrencyMismatch 400, InvalidAccount 404, AccountSuspended 403.
C28_ErrorMapping ==
    [][\A p \in Procs :
          (/\ pc[p] = "failed" /\ pc'[p] = "idle"
           /\ call[p].kind = "transfer"
           /\ sess[p].err \in EngineErrors)
          => /\ durable' = durable
             /\ TransferStatus(sess[p].err) = StatedStatus(sess[p].err)]_vars

\* C28, the part the code keeps: the rollback leaves the durable state as it
\* was, and DuplicateTransaction, InsufficientFunds, InvalidAmount and
\* CurrencyMismatch are answered with their stated status.
C28_ErrorMappingKept ==
    [][\A p \in Procs :
          (/\ pc[p] = "failed" /\ pc'[p] = "idle"
           /\ call[p].kind = "transfer"
           /\ sess[p].err \in EngineErrors \ {"InvalidAccount", "AccountSuspended"})
          => /\ durable' = durable
             /\ TransferStatus(sess[p].err) = StatedStatus(sess[p].err)]_vars

\* C28 failing case: a transfer naming an account that does not exist has
\* failed and is answered with 400.
C28_InvalidAccountIs400 ==
    \E p \in Procs :
        /\ pc[p] = "failed" /\ call[p].kind = "transfer"
        /\ sess[p].err = "InvalidAccount"
        /\ TransferStatus(sess[p].err) = 400

\* C28 failing case: a transfer on a suspended account has failed and is
\* answered with 500.
C28_AccountSuspendedIs500 ==
    \E p \in Procs :
        /\ pc[p] = "failed" /\ call[p].kind = "transfer"
        /\ sess[p].err = "AccountSuspended"
        /\ TransferStatus(sess[p].err) = 500

\* ------------------------------------------------------------------ C29
\* The ids of the transactions of account history.account_id created within
\* the bounds of the request, each bound counting when it was given.
InFilter ==
    {id \in DOMAIN txns :
        /\ history.account_id \in {txns[id].from_account_id, txns[id].to_account_id}
        /\ history.start_date = NoDate \/ history.start_date <= txns[id].created_at
        /\ history.end_date = NoDate \/ txns[id].created_at <= history.end_date}

Answered == history.asked /\ history.err = "none"

Returned == {history.transactions[i].transaction_id :
                i \in 1..Len(history.transactions)}

\* C29 (transaction history query): the rows returned are transactions of the
\* account within [start, end], each once and as stored, in descending order
\* of created_at; there are min(limit, matching - offset) of them, and the
\* matching rows left out are `offset` rows not older than the first returned
\* and otherwise rows not newer than the last returned.
C29_HistoryQuery ==
    Answered =>
        LET page == history.transactions
            n == Len(page)
            rest == InFilter \ Returned
        IN /\ \A i \in 1..n : /\ page[i].transaction_id \in InFilter
                              /\ page[i] = txns[page[i].transaction_id]
           /\ Cardinality(Returned) = n
           /\ \A i, j \in 1..n : i < j => page[i].created_at >= page[j].created_at
           /\ n <= history.limit
           /\ n = history.limit \/ n + history.offset = Cardinality(InFilter)
                 \/ (n = 0 /\ Cardinality(InFilter) <= history.offset)
           /\ n > 0 =>
                \E skipped \in SUBSET rest :
                    /\ Cardinality(skipped) = history.offset
                    /\ \A id \in skipped :
                          txns[id].created_at >= page[1].created_at
                    /\ \A id \in rest \ skipped :
                          txns[id].created_at <= page[n].created_at

\* C29 witness: of two transactions of account 1 created at different times
\* and both within the bounds, the request with limit 1 and offset 1 has
\* returned the older one, created exactly at start_date.
C29_Witness ==
    /\ Answered
    /\ history.account_id = 1
    /\ history.limit = 1 /\ history.offset = 1
    /\ Cardinality(InFilter) = 2
    /\ Len(history.transactions) = 1
    /\ history.transactions[1].created_at = history.start_date
    /\ \E id \in InFilter : txns[id].created_at > history.start_date
    /\ history.end_date # NoDate

\* C29 witness: a transaction in which the account takes no part has been
\* left out of its history.
C29_WitnessOtherAccount ==
    /\ Answered
    /\ history.account_id = 2
    /\ history.start_date = NoDate /\ history.end_date = NoDate
    /\ Len(history.transactions) = 1
    /\ Cardinality(DOMAIN txns) = 2

\* ------------------------------------------------------------------ C30
\* C30 (total_count): in an answered history request, total_count is the
\* number of transactions matching the account and the date filter, whatever
\* limit and offset are.
C30_TotalCount ==
    Answered => history.total_count = Cardinality(InFilter)

\* C30, what the code reports: total_count is the number of transactions on
\* the returned page.
C30_TotalCountIsPageLength ==
    Answered => history.total_count = Len(history.transactions)

\* C30 failing case: two transactions match, the request has limit 1, and
\* total_count is 1.
C30_PageShorterThanTotal ==
    /\ Answered
    /\ Cardinality(InFilter) = 2
    /\ history.limit = 1 /\ history.offset = 0
    /\ history.total_count = 1

\* ------------------------------------------------------------------ C31
\* The user of the request owns the source or the destination account of
\* transaction t.
OwnsEitherAccount(user_id, t) ==
    \/ accounts[t.from_account_id].user_id = user_id
    \/ accounts[t.to_account_id].user_id = user_id

\* C31 (transaction read access): a request for an existing transaction is
\* answered with the transaction when the user owns its source or its
\* destination account, and with 403 when the user owns neither.
C31_ReadAccess ==
    (history # NoHistory /\ history.transaction_id \in DOMAIN txns) =>
        IF OwnsEitherAccount(history.user_id, txns[history.transaction_id])
        THEN /\ history.status = 200
             /\ history.transaction = txns[history.transaction_id]
        ELSE history.status = 403

\* C31, what the code does: the transaction is returned to the owner of the
\* source account and to nobody else.
C31_ReadAccessSourceOnly ==
    (history # NoHistory /\ history.transaction_id \in DOMAIN txns) =>
        LET t == txns[history.transaction_id]
        IN IF accounts[t.from_account_id].user_id = history.user_id
           THEN history.status = 200 /\ history.transaction = t
           ELSE history.status = 403

\* C31 failing case: the owner of the destination account alone has asked
\* for the transaction and was answered 403.
C31_DestinationOwnerDenied ==
    /\ history # NoHistory
    /\ history.transaction_id \in DOMAIN txns
    /\ accounts[txns[history.transaction_id].to_account_id].user_id = history.user_id
    /\ accounts[txns[history.transaction_id].from_account_id].user_id # history.user_id
    /\ history.status = 403

\* ------------------------------------------------------------------ C32
\* Request p takes the row lock of account id in this step.
Acquires(p, id) == locks[id] # p /\ locks'[id] = p

\* The call of p names two different accounts that exist.
TwoAccounts(p) ==
    /\ call[p].kind # "none"
    /\ call[p].from # call[p].to
    /\ {call[p].from, call[p].to} \subseteq DOMAIN accounts

\* C32 (lock ordering): a transfer, issued directly or by reverse_transaction,
\* takes the lock of the higher account id only while it holds the lock of
\* the lower one, whatever the direction of the transfer.
C32_LockOrdering ==
    [][\A p \in Procs :
          TwoAccounts(p) =>
             LET lo == Min(call[p].from, call[p].to)
                 hi == call[p].from + call[p].to - lo
             IN Acquires(p, hi) => locks[lo] = p]_vars

\* C32, what the code does: the lock of the destination is taken only while
\* the lock of the source is held.
C32_LockOrderingSourceFirst ==
    [][\A p \in Procs :
          TwoAccounts(p) =>
             (Acquires(p, call[p].to) => locks[call[p].from] = p)]_vars

\* C32 failing case: a transfer from a higher to a lower account id holds the
\* lock of the higher id and not yet that of the lower.
C32_HigherLockedFirst ==
    \E p \in Procs :
        /\ TwoAccounts(p) /\ call[p].kind = "transfer"
        /\ call[p].from > call[p].to
        /\ locks[call[p].from] = p /\ locks[call[p].to] # p

\* C32 failing case: the transfer of a reversal does the same.
C32_ReversalHigherLockedFirst ==
    \E p \in Procs :
        /\ TwoAccounts(p) /\ call[p].kind = "reverse"
        /\ call[p].from > call[p].to
        /\ locks[call[p].from] = p /\ locks[call[p].to] # p

\* ------------------------------------------------------------------ C33
\* Request p arrives in this step as a transfer_money call, whose first act
\* is check_idempotency on its key.
Arrives(p) == pc[p] = "idle" /\ call'[p].kind = "transfer"

\* C33 (store is authoritative): whenever check_idempotency returns response
\* data for a key, a committed idempotency record of that key with that
\* response exists; an entry that is in the cache only is never returned.
C33_StoreAuthoritative ==
    [][\A p \in Procs :
          (Arrives(p) /\ CheckIdempotency(call'[p].key) # 0)
          => /\ idem[call'[p].key] # NoRow
             /\ idem[call'[p].key].transaction_id
                   = CheckIdempotency(call'[p].key)]_vars

\* C33 failing case: no record of key k was ever committed and no unit of
\* work is open, yet check_idempotency returns the response a rolled-back
\* unit of work left in the cache.
C33_RolledBackEntryReturned ==
    \E k \in Keys :
        /\ \A p \in Procs : pc[p] = "idle"
        /\ idem[k] = NoRow
        /\ CheckIdempotency(k) # 0

\* C33 failing case: check_idempotency returns the response of a unit of work
\* that has stored it and not yet committed.
C33_UncommittedEntryReturned ==
    \E k \in Keys, p, q \in Procs :
        /\ pc[p] = "returned" /\ call[p].key = k /\ pc[q] = "idle"
        /\ idem[k] = NoRow
        /\ CheckIdempotency(k) = sess[p].txn.transaction_id

\* ------------------------------------------------------------------ C34
\* Key k has a committed record that has not expired.
Live(k) == idem[k] # NoRow /\ idem[k].expires_at > 0

\* C34 (stable idempotency response): while the committed record of a key is
\* live, check_idempotency returns that record's response, and no later
\* store of the key replaces the record or changes what check returns.
C34_StableResponse ==
    [][\A k \in Keys :
          Live(k) => /\ CheckIdempotency(k) = idem[k].transaction_id
                     /\ idem'[k].transaction_id = idem[k].transaction_id]_vars

\* C34, the part the code keeps: a later store never replaces the record.
C34_OneRecord ==
    [][\A k \in Keys :
          Live(k) => idem'[k].transaction_id = idem[k].transaction_id]_vars

\* C34 failing case: the record of key k is live with response r1, a second
\* store of k with another response was refused by the table, and check
\* returns the second response.
C34_SecondStoreReturned ==
    \E k \in Keys :
        /\ Live(k)
        /\ \A p \in Procs : pc[p] = "idle"
        /\ CheckIdempotency(k) # idem[k].transaction_id

\* ------------------------------------------------------------------ C35
\* C35 (cache coherence on commit): when a unit of work that changed the
\* balance of an account commits, the cache holds no balance entry of that
\* account with the balance of before, and a get_balance right after the
\* commit returns the committed balance.
C35_CacheCoherence ==
    [][\A p \in Procs :
          CommitStep(p) =>
             \A id \in {call[p].from, call[p].to} :
                 accounts'[id].balance # accounts[id].balance
                 => /\ balcache'[id] # [balance |-> accounts[id].balance]
                    /\ GetBalanceValue(id)' = accounts'[id].balance]_vars

\* C35, what the code keeps: right after update_balance, inside the unit of
\* work, the cache has no balance entry of the two accounts.
C35_InvalidatedAtUpdate ==
    [][\A p \in Procs :
          (pc[p] = "mutate" /\ pc'[p] = "returned")
          => \A id \in {call[p].from, call[p].to} : balcache'[id] = NoRow]_vars

\* C35 failing case: no request is open, and the cache holds a balance of an
\* account that differs from its committed balance.
C35_StaleBalanceCached ==
    /\ \A p \in Procs : pc[p] = "idle"
    /\ \E id \in DOMAIN accounts :
          balcache[id] # NoRow /\ GetBalanceValue(id) # accounts[id].balance

\* ------------------------------------------------------------------ C36
RECURSIVE JournalSum(_, _, _)
\* The sum of the amounts of the first n committed journal entries that are
\* of type entry_type on account a.
JournalSum(n, a, entry_type) ==
    IF n = 0 THEN 0
    ELSE JournalSum(n - 1, a, entry_type)
         + (IF entries[n].account_id = a /\ entries[n].entry_type = entry_type
            THEN entries[n].amount ELSE 0)

\* The balance the journal gives account a.
JournalBalance(a) ==
    InitialAccounts[a].balance + JournalSum(Len(entries), a, "CREDIT")
                               - JournalSum(Len(entries), a, "DEBIT")

\* C36 (balance equals journal): in every committed state the balance of each
\* account is its creation balance plus its CREDIT entries minus its DEBIT
\* entries.
C36_BalanceEqualsJournal ==
    \A a \in DOMAIN accounts : accounts[a].balance = JournalBalance(a)

\* C36, what the code keeps: a committed transfer or reversal between two
\* different accounts of an amount in whole cents moves every balance as it
\* moves the journal.
C36_BalanceEqualsJournalKept ==
    [][\A p \in Procs :
          (CommitStep(p) /\ call[p].from # call[p].to
              /\ call[p].amount % Cent = 0)
          => \A a \in DOMAIN accounts :
                accounts'[a].balance - JournalBalance(a)'
                   = accounts[a].balance - JournalBalance(a)]_vars

\* C36 failing case: a committed self-transfer; the journal debits and
\* credits the account alike and its balance has risen.
C36_SelfTransferOffJournal ==
    \E id \in DOMAIN txns :
        /\ txns[id].from_account_id = txns[id].to_account_id
        /\ \A other \in DOMAIN txns : other = id
        /\ accounts[txns[id].from_account_id].balance
              > JournalBalance(txns[id].from_account_id)

\* C36 failing case: a committed transfer of half a cent between two
\* accounts; the journal debits the source by the stored cent and its
\* balance has not moved.
C36_SubCentOffJournal ==
    \E id \in DOMAIN txns :
        /\ txns[id].from_account_id # txns[id].to_account_id
        /\ \A other \in DOMAIN txns : other = id
        /\ accounts[txns[id].from_account_id].balance
              = InitialAccounts[txns[id].from_account_id].balance
        /\ JournalBalance(txns[id].from_account_id)
              < accounts[txns[id].from_account_id].balance

\* ------------------------------------------------------------------ C37
\* C37 (no unfinished transaction is durable): with every returned call
\* committed and every failed call rolled back, each committed Transaction
\* row is COMPLETED or REVERSED; none is PENDING or FAILED.
C37_NoUnfinishedDurable ==
    \A id \in DOMAIN txns :
        /\ txns[id].status \in {"COMPLETED", "REVERSED"}
        /\ txns[id].status \notin {"PENDING", "FAILED"}

\* C37 witness: a transfer was reversed and another unit of work that had
\* inserted its Transaction row was rolled back; the table holds a REVERSED
\* and a COMPLETED row and no row of the id the rolled-back call had drawn.
C37_Witness ==
    /\ \A p \in Procs : pc[p] = "idle"
    /\ \E id \in DOMAIN txns : txns[id].status = "REVERSED"
    /\ \E id \in DOMAIN txns : txns[id].status = "COMPLETED"
    /\ \E id \in 1..(nextTxnId - 1) : id \notin DOMAIN txns

\* ------------------------------------------------------------------ C38
\* The committed BALANCE_UPDATED audit rows of account id, in commit order.
BalanceUpdates(id) ==
    SelectSeq(audits, LAMBDA a : a.account_id = id /\ a.action = "BALANCE_UPDATED")

\* C38 (audit chain): the BALANCE_UPDATED rows of each account form a chain
\* from its creation balance to its committed balance: the first row's
\* old_balance is the creation balance, each later row's old_balance is the
\* new_balance of the row before, and the last row's new_balance is the
\* balance; an account without such rows has its creation balance.
C38_AuditChain ==
    \A id \in DOMAIN accounts :
        LET rows == BalanceUpdates(id) IN
        IF Len(rows) = 0 THEN accounts[id].balance = InitialAccounts[id].balance
        ELSE /\ rows[1].old_balance = InitialAccounts[id].balance
             /\ \A i \in 1..(Len(rows) - 1) :
                   rows[i + 1].old_balance = rows[i].new_balance
             /\ rows[Len(rows)].new_balance = accounts[id].balance

\* C38 witness: two transfers in opposite directions have committed and each
\* of the two accounts has a chain of two rows that moved its balance.
C38_Witness ==
    /\ \A p \in Procs : pc[p] = "idle"
    /\ \E t, u \in DOMAIN txns :
          /\ txns[t].from_account_id = txns[u].to_account_id
          /\ txns[t].to_account_id = txns[u].from_account_id
          /\ txns[t].from_account_id # txns[t].to_account_id
    /\ \A id \in {1, 2} :
          /\ Len(BalanceUpdates(id)) = 2
          /\ BalanceUpdates(id)[1].new_balance # BalanceUpdates(id)[1].old_balance

\* ------------------------------------------------------------------ C39
\* Request p is a transfer between two different accounts of an amount that
\* is not in whole cents.
SubCentTransfer(p) ==
    /\ call[p].kind = "transfer"
    /\ call[p].from # call[p].to
    /\ call[p].amount % Cent # 0

\* C39 (sub-cent amounts): when a transfer of an amount with more than two
\* fractional digits commits, the stored decrease of the source equals the
\* stored increase of the destination, and the stored amount of the
\* transaction and of its two entries equals that delta and is positive.
C39_SubCentAmounts ==
    [][\A p \in Procs :
          (CommitStep(p) /\ SubCentTransfer(p)) =>
             LET id == sess[p].txn.transaction_id
                 delta == accounts'[call[p].to].balance - accounts[call[p].to].balance
                 es == SelectSeq(entries', LAMBDA e : e.transaction_id = id)
             IN /\ accounts[call[p].from].balance - accounts'[call[p].from].balance
                      = delta
                /\ txns'[id].amount = delta
                /\ \A i \in 1..Len(es) : es[i].amount = delta
                /\ delta > 0]_vars

\* C39, what the code keeps: the stored amount of the transaction and of its
\* entries is the stored increase of the destination and is positive.
C39_SubCentAmountsKept ==
    [][\A p \in Procs :
          (CommitStep(p) /\ SubCentTransfer(p)) =>
             LET id == sess[p].txn.transaction_id
                 delta == accounts'[call[p].to].balance - accounts[call[p].to].balance
                 es == SelectSeq(entries', LAMBDA e : e.transaction_id = id)
             IN /\ txns'[id].amount = delta
                /\ \A i \in 1..Len(es) : es[i].amount = delta
                /\ delta > 0]_vars

\* C39 failing case: a transfer of half a cent has committed; the source
\* holds what it held and the destination holds a cent more.
C39_MoneyCreated ==
    /\ \A p \in Procs : pc[p] = "idle"
    /\ DOMAIN txns = {1}
    /\ txns[1].from_account_id = 1 /\ txns[1].to_account_id = 2
    /\ accounts[1].balance = InitialAccounts[1].balance
    /\ accounts[2].balance = InitialAccounts[2].balance + Cent

\* ------------------------------------------------------------------ C40
\* The error of the first rule, in the stated priority after the key, that
\* the transfer request c violates in the committed state, or "none".
FirstViolation(c) ==
    IF c.amount <= 0 THEN "InvalidAmount"
    ELSE IF c.from \notin DOMAIN accounts THEN "InvalidAccount"
    ELSE IF accounts[c.from].status # "ACTIVE" THEN "AccountSuspended"
    ELSE IF c.to \notin DOMAIN accounts THEN "InvalidAccount"
    ELSE IF accounts[c.to].status # "ACTIVE" THEN "AccountSuspended"
    ELSE IF accounts[c.from].currency # c.currency
            \/ accounts[c.to].currency # c.currency THEN "CurrencyMismatch"
    ELSE IF accounts[c.from].balance < c.amount THEN "InsufficientFunds"
    ELSE "none"

\* Request p, a transfer_money call, fails in this step.
TransferFails(p) ==
    pc[p] # "failed" /\ pc'[p] = "failed" /\ call'[p].kind = "transfer"

\* C40 (error precedence): a transfer whose key is materialized in a
\* committed transaction fails with DuplicateTransaction whatever else is
\* wrong with it; otherwise a transfer that violates a rule fails with the
\* error of the first rule violated, in the order InvalidAmount, source
\* account, destination account, CurrencyMismatch, InsufficientFunds; and no
\* transfer that violates a rule gets as far as inserting its transaction.
C40_ErrorPrecedence ==
    [][\A p \in Procs :
          LET c == call'[p]
              expected == IF KeyCommitted(c.key) THEN "DuplicateTransaction"
                          ELSE FirstViolation(c)
          IN /\ (TransferFails(p) /\ expected # "none")
                   => sess'[p].err = expected
             /\ (c.kind = "transfer" /\ pc[p] # "mutate" /\ pc'[p] = "mutate")
                   => expected = "none"]_vars

\* C40, what the code keeps: the same with DuplicateTransaction reported for
\* the keys check_idempotency still finds when the call arrives; a key whose
\* record has expired is not reported, and the call fails on its first other
\* violation or, having none, on the insert of its transaction.
C40_ErrorPrecedenceKept ==
    [][\A p \in Procs :
          LET c == call'[p]
              found == /\ Arrives(p)
                       /\ CheckIdempotency(c.key) \in DOMAIN txns
              expected == IF found THEN "DuplicateTransaction"
                          ELSE FirstViolation(c)
          IN /\ (TransferFails(p) /\ expected # "none")
                   => sess'[p].err = expected
             /\ (TransferFails(p) /\ expected = "none")
                   => /\ sess'[p].err \in {"IntegrityError", "OperationalError",
                                           "Exception"}
                      /\ sess'[p].err = "IntegrityError" => KeyCommitted(c.key)
             /\ (c.kind = "transfer" /\ pc[p] # "mutate" /\ pc'[p] = "mutate")
                   => expected = "none" /\ ~KeyCommitted(c.key)]_vars

\* C40 failing case: a transfer of a zero amount whose key is materialized in
\* a committed transaction has failed with InvalidAmount.
C40_InvalidAmountBeforeDuplicate ==
    \E p \in Procs :
        /\ pc[p] = "failed" /\ call[p].kind = "transfer"
        /\ KeyCommitted(call[p].key)
        /\ call[p].amount = 0
        /\ sess[p].err = "InvalidAmount"

====
